---- MODULE Spec2Model ----
(***************************************************************************)
(* Model of the OCI marketplace processors: process_oci_customer.py (the   *)
(* "customer" variant) and process_oci_all_regions.py (the "all_regions"   *)
(* variant).  Both define OCIMarketplaceSalesProcessor with the state      *)
(* all_listings / unique_listings, the loader, the consolidator and the    *)
(* field extractor safe_get.                                               *)
(***************************************************************************)
EXTENDS Integers, Sequences, FiniteSets, TLC

VARIABLES
    variant,          \* which script is running: "customer" or "all_regions"
    files,            \* per position of the region list: data['data'] of the listings file
    detailed,         \* per position of the region list: data['data'] of the detailed file
    all_listings,     \* self.all_listings, in dict insertion order: <<[key, listings]>>
    unique_listings,  \* self.unique_listings, in dict insertion order
    total_loaded,     \* main: total_loaded
    unique_count,     \* main: unique_count, what consolidate_unique_listings returned
    pc,               \* position of main
    pos,              \* position of the two nested loops of consolidate_unique_listings
    runs,             \* number of calls of consolidate_unique_listings so far
    first_run,        \* the canonical listings as the first call left them
    loaded_listings,  \* all_listings as load_all_regional_data left it
    sg,               \* one call of safe_get: its arguments and its outcome
    fn,               \* one call of a classifier or scorer: its arguments and its outcome
    ex                \* the export: the rows built so far and the file written

vars == <<variant, files, detailed, all_listings, unique_listings, total_loaded,
          unique_count, pc, pos, runs, first_run, loaded_listings, sg, fn, ex>>

(***************************************************************************)
(* Bounds of the model.                                                    *)
(***************************************************************************)
MaxRecords == 2     \* raw records in all the region files together
MaxRuns == 2        \* calls of consolidate_unique_listings on one processor
MaxPathLen == 2     \* length of a key sequence handed to safe_get

(***************************************************************************)
(* Python values.  Every value is a record [tag, v, items]: an atom has a  *)
(* tag and a printed form v; a dict has the set of its (key, value) pairs. *)
(***************************************************************************)
Atom(tag, v) == [tag |-> tag, v |-> v, items |-> {}]
Dict(items) == [tag |-> "dict", v |-> "", items |-> items]
PyNone == Atom("none", "None")
Str(s) == Atom("str", s)
PyInt0 == Atom("int", "0")
PyFalse == Atom("bool", "False")
PyEmptyList == Atom("list", "[]")
EmptyDict == Dict({})

IsDict(d) == d.tag = "dict"
Has(d, k) == \E p \in d.items : p[1] = k
Get(d, k) == (CHOOSE p \in d.items : p[1] = k)[2]
Keys(d) == {p[1] : p \in d.items}

\* bool(x) of Python
Truthy(x) ==
    CASE x.tag = "none" -> FALSE
      [] x.tag = "str" -> x.v # ""
      [] x.tag = "int" -> x.v # "0"
      [] x.tag = "bool" -> x.v # "False"
      [] x.tag = "list" -> x.v # "[]"
      [] x.tag = "dict" -> x.items # {}
      [] OTHER -> TRUE

\* a or b of Python
PyOr(a, b) == IF Truthy(a) THEN a ELSE b

\* d.get(k, default) of a dict
DictGet(d, k, default) == IF Has(d, k) THEN Get(d, k) ELSE default

(***************************************************************************)
(* safe_get(data, keys, default).  The outcome is [raised, value]: the     *)
(* single-key form calls data.get, which raises AttributeError when data   *)
(* is no dict.                                                             *)
(***************************************************************************)
Returned(x) == [raised |-> FALSE, value |-> x]
Raised == [raised |-> TRUE, value |-> PyNone]

safe_get_single(data, key, default) ==
    IF IsDict(data)
    THEN Returned(PyOr(DictGet(data, key, default), default))
    ELSE Raised

RECURSIVE safe_get_walk(_, _, _)
safe_get_walk(current, path, default) ==
    IF path = <<>>
    THEN Returned(IF current # PyNone THEN current ELSE default)
    ELSE IF IsDict(current) /\ Has(current, Head(path))
         THEN safe_get_walk(Get(current, Head(path)), Tail(path), default)
         ELSE Returned(default)

\* keys is [single |-> TRUE, key |-> k] for a str, [single |-> FALSE, path |-> <<..>>] for a list
safe_get(data, keys, default) ==
    IF keys.single
    THEN safe_get_single(data, keys.key, default)
    ELSE safe_get_walk(data, keys.path, default)

(***************************************************************************)
(* The configured region lists.  region_files is the list of __init__ of   *)
(* the customer variant, regions the local list of load_all_regional_data  *)
(* of the all_regions variant; region_mapping is the display-name table of *)
(* consolidate_unique_listings (customer variant).                         *)
(***************************************************************************)
region_files ==
    << [key |-> "commercial",            name |-> "Commercial (OC1)"],
       [key |-> "oc3_us_gov_east",       name |-> "OC3 US Gov East"],
       [key |-> "oc3_us_gov_west",       name |-> "OC3 US Gov West"],
       [key |-> "oc2_us_dod_east",       name |-> "OC2 DoD East (Langley)"],
       [key |-> "oc2_us_dod_west",       name |-> "OC2 DoD West (Luke)"],
       [key |-> "legacy_us_dod_east",    name |-> "Legacy DoD East"],
       [key |-> "legacy_us_dod_central", name |-> "Legacy DoD Central"],
       [key |-> "legacy_us_dod_west",    name |-> "Legacy DoD West"] >>

all_regions_list ==
    << [key |-> "commercial",     name |-> "Commercial"],
       [key |-> "us_gov_east",    name |-> "US Government East"],
       [key |-> "us_gov_west",    name |-> "US Government West"],
       [key |-> "us_dod_east",    name |-> "US DoD East"],
       [key |-> "us_dod_central", name |-> "US DoD Central"],
       [key |-> "us_dod_west",    name |-> "US DoD West"],
       [key |-> "uk_gov",         name |-> "UK Government"] >>

RegionList(v) == IF v = "customer" THEN region_files ELSE all_regions_list

region_mapping ==
    [k \in {"commercial", "oc3_us_gov_east", "oc3_us_gov_west", "oc2_us_dod_east",
            "oc2_us_dod_west", "legacy_us_dod_east", "legacy_us_dod_central",
            "legacy_us_dod_west"} |->
        CASE k = "commercial" -> "Commercial (OC1)"
          [] k = "oc3_us_gov_east" -> "US Gov East (OC3)"
          [] k = "oc3_us_gov_west" -> "US Gov West (OC3)"
          [] k = "oc2_us_dod_east" -> "DoD East/Langley (OC2)"
          [] k = "oc2_us_dod_west" -> "DoD West/Luke (OC2)"
          [] k = "legacy_us_dod_east" -> "Legacy DoD East"
          [] k = "legacy_us_dod_central" -> "Legacy DoD Central"
          [] k = "legacy_us_dod_west" -> "Legacy DoD West"]

\* region_mapping.get(region_key, region_key)
RegionName(region_key) ==
    IF region_key \in DOMAIN region_mapping THEN region_mapping[region_key] ELSE region_key

(***************************************************************************)
(* merge_detailed_data(region_key, detailed_data): fills, in the listings  *)
(* of one region, the fields that are missing or None from the detailed    *)
(* item with the same id.  item.get and listing.get raise on a value that  *)
(* is no dict; the listings merged before the raise stay merged.           *)
(***************************************************************************)
\* FillFromDetailed with the detailed value written over whatever the listing holds
FillFromDetailed_Overwrites(listing, detailed_item) ==
    Dict({p \in listing.items : ~Has(detailed_item, p[1])} \cup detailed_item.items)

\* the loop body "for key, value in detailed_item.items(): if key not in listing or listing[key] is None"
FillFromDetailed(listing, detailed_item) ==
    Dict({p \in listing.items : ~(Has(detailed_item, p[1]) /\ p[2] = PyNone)}
         \cup {q \in detailed_item.items :
                 ~Has(listing, q[1]) \/ Get(listing, q[1]) = PyNone})

\* detailed_dict = {item.get('id'): item for item in detailed_data if item.get('id')}
DetailedDictKeys(detailed_data) ==
    {DictGet(detailed_data[j], "id", PyNone) : j \in
        {j \in 1..Len(detailed_data) : Truthy(DictGet(detailed_data[j], "id", PyNone))}}

\* detailed_dict[listing_id]: a later item replaces an earlier one with the same id
DetailedDictItem(detailed_data, listing_id) ==
    LET js == {j \in 1..Len(detailed_data) :
                 DictGet(detailed_data[j], "id", PyNone) = listing_id}
    IN  detailed_data[CHOOSE j \in js : \A j2 \in js : j2 <= j]

RECURSIVE MergeDetailedFrom(_, _, _)
MergeDetailedFrom(listings, detailed_data, i) ==
    IF i > Len(listings)
    THEN [raised |-> FALSE, listings |-> listings]
    ELSE IF ~IsDict(listings[i])
         THEN [raised |-> TRUE, listings |-> listings]
         ELSE LET listing_id == DictGet(listings[i], "id", PyNone)
                  merged == IF listing_id \in DetailedDictKeys(detailed_data)
                            THEN FillFromDetailed(listings[i],
                                                  DetailedDictItem(detailed_data, listing_id))
                            ELSE listings[i]
              IN  MergeDetailedFrom([listings EXCEPT ![i] = merged], detailed_data, i + 1)

merge_detailed_data(listings, detailed_data) ==
    IF detailed_data = <<>>
    THEN [raised |-> FALSE, listings |-> listings]
    ELSE IF \E j \in 1..Len(detailed_data) : ~IsDict(detailed_data[j])
         THEN [raised |-> TRUE, listings |-> listings]
         ELSE MergeDetailedFrom(listings, detailed_data, 1)

(***************************************************************************)
(* load_all_regional_data: one entry of all_listings per configured        *)
(* region, inserted in the order of the region list.                       *)
(***************************************************************************)
RECURSIVE LoadFrom(_, _, _, _, _)
LoadFrom(v, fs, ds, i, acc) ==
    IF i > Len(RegionList(v))
    THEN acc
    ELSE IF fs[i] # <<>>
         THEN LET m == merge_detailed_data(fs[i], ds[i])
                  al == Append(acc.all_listings,
                               [key |-> RegionList(v)[i].key, listings |-> m.listings])
              IN  IF m.raised
                  THEN [raised |-> TRUE, all_listings |-> al,
                        total |-> acc.total + Len(fs[i])]
                  ELSE LoadFrom(v, fs, ds, i + 1,
                                [raised |-> FALSE, all_listings |-> al,
                                 total |-> acc.total + Len(fs[i])])
         ELSE LoadFrom(v, fs, ds, i + 1,
                       [raised |-> FALSE,
                        all_listings |-> Append(acc.all_listings,
                                                [key |-> RegionList(v)[i].key,
                                                 listings |-> <<>>]),
                        total |-> acc.total])

load_all_regional_data(v, fs, ds) ==
    LoadFrom(v, fs, ds, 1, [raised |-> FALSE, all_listings |-> <<>>, total |-> 0])

(***************************************************************************)
(* consolidate_unique_listings.  unique_listings[listing_id]['listing'] is *)
(* the very dict object that all_listings holds for the first record seen  *)
(* with that id (the code stores the reference, it does not copy), so an   *)
(* entry keeps the place [r, i] of that record in all_listings and every   *)
(* write to "existing" is a write to all_listings.                         *)
(***************************************************************************)
\* listing.get('id', '')
ListingId(listing) == DictGet(listing, "id", Str(""))

\* a dict key must be hashable: a list or a dict as listing_id raises TypeError
Hashable(x) == x.tag \notin {"list", "dict"}

\* FindEntry with the lookup never succeeding (every record taken for a first sighting)
FindEntry_Never(ul, listing_id) == 0

\* "listing_id not in self.unique_listings": the position of the entry, 0 when there is none
FindEntry(ul, listing_id) ==
    IF \E n \in 1..Len(ul) : ul[n].id = listing_id
    THEN CHOOSE n \in 1..Len(ul) : ul[n].id = listing_id
    ELSE 0

\* IsEmptyValue with the test for None alone in both variants
IsEmptyValue_NoneOnly(v, x) == x = PyNone

\* the value test of the merge condition: "existing[key] is None or existing[key] == ''"
\* (customer), "existing[key] is None" (all_regions)
IsEmptyValue(v, x) ==
    IF v = "customer" THEN x = PyNone \/ x = Str("") ELSE x = PyNone

\* MergeFields with the later record's value taken for every field it has
MergeFields_LaterWins(v, existing, listing) ==
    Dict({p \in existing.items : ~Has(listing, p[1])} \cup listing.items)

\* "for key, value in listing.items(): if key not in existing or <empty>: existing[key] = value"
MergeFields(v, existing, listing) ==
    Dict({p \in existing.items : ~(Has(listing, p[1]) /\ IsEmptyValue(v, p[2]))}
         \cup {q \in listing.items :
                 ~Has(existing, q[1]) \/ IsEmptyValue(v, Get(existing, q[1]))})

\* d[key] = True on a dict kept as the sequence of its keys in insertion order
DictSetKey(keys, key) ==
    IF \E n \in 1..Len(keys) : keys[n] = key THEN keys ELSE Append(keys, key)

\* AppendIfAbsent without the membership test
AppendIfAbsent_Always(names, name) == Append(names, name)

\* "if region_name not in region_names: region_names.append(region_name)"
AppendIfAbsent(names, name) ==
    IF \E n \in 1..Len(names) : names[n] = name THEN names ELSE Append(names, name)

\* NewEntry that records the region key in place of its display name
NewEntry_KeyAsName(v, listing_id, r, i, region_key) ==
    [id |-> listing_id,
     listing |-> [r |-> r, i |-> i],
     regions |-> <<region_key>>,
     primary_region |-> region_key,
     region_names |-> IF v = "customer" THEN <<region_key>> ELSE <<>>]

\* the entry made on the first sighting of an id; the all_regions variant has no region_names
NewEntry(v, listing_id, r, i, region_key) ==
    [id |-> listing_id,
     listing |-> [r |-> r, i |-> i],
     regions |-> <<region_key>>,
     primary_region |-> region_key,
     region_names |-> IF v = "customer" THEN <<RegionName(region_key)>> ELSE <<>>]

\* MergedEntry that records the display name but not the region key
MergedEntry_NoRegion(v, entry, region_key) ==
    [entry EXCEPT
        !.region_names = IF v = "customer"
                         THEN IF \E n \in 1..Len(@) : @[n] = RegionName(region_key)
                              THEN @ ELSE Append(@, RegionName(region_key))
                         ELSE @]

\* MergedEntry that replaces the region dict instead of adding a key to it
MergedEntry_ResetsRegions(v, entry, region_key) ==
    [entry EXCEPT
        !.regions = <<region_key>>,
        !.region_names = IF v = "customer"
                         THEN IF \E n \in 1..Len(@) : @[n] = RegionName(region_key)
                              THEN @ ELSE Append(@, RegionName(region_key))
                         ELSE @]

\* MergedEntry that also moves primary_region to the region just merged
MergedEntry_MovesPrimary(v, entry, region_key) ==
    [entry EXCEPT
        !.regions = IF \E n \in 1..Len(@) : @[n] = region_key THEN @ ELSE Append(@, region_key),
        !.primary_region = region_key,
        !.region_names = IF v = "customer"
                         THEN IF \E n \in 1..Len(@) : @[n] = RegionName(region_key)
                              THEN @ ELSE Append(@, RegionName(region_key))
                         ELSE @]

\* the entry after a later sighting of its id in region_key
MergedEntry(v, entry, region_key) ==
    [entry EXCEPT
        !.regions = DictSetKey(@, region_key),
        !.region_names = IF v = "customer"
                         THEN AppendIfAbsent(@, RegionName(region_key))
                         ELSE @]

\* the listing an entry refers to
Listing(al, e) == al[e.listing.r].listings[e.listing.i]

\* the body of the inner loop for the record at [r, i]
ConsolidateRecord(v, al, ul, r, i) ==
    LET listing == al[r].listings[i]
        region_key == al[r].key
    IN  IF ~IsDict(listing) \/ ~Hashable(ListingId(listing))
        THEN [raised |-> TRUE, all_listings |-> al, unique_listings |-> ul]
        ELSE LET listing_id == ListingId(listing)
                 n == FindEntry(ul, listing_id)
             IN  IF n = 0
                 THEN [raised |-> FALSE, all_listings |-> al,
                       unique_listings |->
                           Append(ul, NewEntry(v, listing_id, r, i, region_key))]
                 ELSE LET e == MergedEntry(v, ul[n], region_key)
                          existing == Listing(al, e)
                      IN  [raised |-> FALSE,
                           all_listings |->
                               [al EXCEPT ![e.listing.r].listings[e.listing.i] =
                                              MergeFields(v, existing, listing)],
                           unique_listings |-> [ul EXCEPT ![n] = e]]

\* the loops "for region_key, listings in self.all_listings.items(): for listing in listings"
RECURSIVE FirstRegionFrom(_, _)
FirstRegionFrom(al, r) ==
    IF r > Len(al) THEN r
    ELSE IF al[r].listings # <<>> THEN r ELSE FirstRegionFrom(al, r + 1)

FirstPos(al) == [r |-> FirstRegionFrom(al, 1), i |-> 1]

NextPos(al, p) ==
    IF p.i < Len(al[p.r].listings)
    THEN [r |-> p.r, i |-> p.i + 1]
    ELSE [r |-> FirstRegionFrom(al, p.r + 1), i |-> 1]

\* the canonical listings with the listing each one refers to
Canonical(al, ul) ==
    [n \in 1..Len(ul) |->
        [id |-> ul[n].id, listing |-> Listing(al, ul[n]), regions |-> ul[n].regions,
         primary_region |-> ul[n].primary_region, region_names |-> ul[n].region_names]]

(***************************************************************************)
(* The inputs: the raw records the region files may hold.  A file of the   *)
(* region at position i of the region list holds the sequence files[i];    *)
(* the empty sequence stands for a missing or empty file.                  *)
(***************************************************************************)
IdChoices == {<<>>, <<Str("")>>, <<Str("X")>>, <<Str("Y")>>}
DescriptionChoices == {<<>>, <<PyNone>>, <<Str("")>>, <<Str("foo")>>, <<Str("bar")>>}

\* a listing with the given id and description, each present (<<x>>) or missing (<<>>)
MkListing(id, description) ==
    Dict({<<"id", id[n]>> : n \in 1..Len(id)}
         \cup {<<"description", description[n]>> : n \in 1..Len(description)})

NotAMapping == Str("not-a-listing")

RawRecords ==
    {MkListing(id, d) : id \in IdChoices, d \in DescriptionChoices} \cup {NotAMapping}

\* the positions of the region list whose files hold records
DataPositions == {1, 2, 4}

\* the records of the files, in the order the loops visit them: the positions do not decrease
PositionVectors(n) ==
    {pv \in [1..n -> DataPositions] : \A k \in 1..n : \A m \in 1..k : pv[m] <= pv[k]}

\* The code never looks into an id or a description beyond comparing it with None and '',
\* so inputs are drawn up to renaming: the first id used is "X", the first text is "foo".
FirstNamesFirst(rs) ==
    /\ \A k \in DOMAIN rs :
          (IsDict(rs[k]) /\ DictGet(rs[k], "id", PyNone) = Str("Y"))
              => \E m \in 1..k : IsDict(rs[m]) /\ DictGet(rs[m], "id", PyNone) = Str("X")
    /\ \A k \in DOMAIN rs :
          (IsDict(rs[k]) /\ DictGet(rs[k], "description", PyNone) = Str("bar"))
              => \E m \in 1..k : IsDict(rs[m])
                                   /\ DictGet(rs[m], "description", PyNone) = Str("foo")

RecordVectors(n) == {rs \in [1..n -> RawRecords] : FirstNamesFirst(rs)}

\* the records rs[k] with pv[k] = i, in order
RECURSIVE RecordsAt(_, _, _, _)
RecordsAt(pv, rs, i, k) ==
    IF k > Len(rs) THEN <<>>
    ELSE IF pv[k] = i
         THEN <<rs[k]>> \o RecordsAt(pv, rs, i, k + 1)
         ELSE RecordsAt(pv, rs, i, k + 1)

FilesOf(v, pv, rs) == [i \in 1..Len(RegionList(v)) |-> RecordsAt(pv, rs, i, 1)]

NoFiles(v) == [i \in 1..Len(RegionList(v)) |-> <<>>]

NoCall == [data |-> PyNone, keys |-> [single |-> TRUE, key |-> "", path |-> <<>>],
           default |-> Str(""), done |-> FALSE, result |-> Raised]

\* no classifier or scorer called yet
NoDerivation ==
    [op |-> "", listing |-> EmptyDict, regions |-> <<>>, done |-> FALSE,
     raised |-> FALSE, label |-> "", score |-> 0, text |-> <<>>]

\* process_to_sales_excel not entered yet
NoExport == [n |-> 0, catalog_data |-> <<>>, failed |-> <<>>, file |-> <<>>]

\* the state after OCIMarketplaceSalesProcessor() in main
Init ==
    /\ variant \in {"customer", "all_regions"}
    /\ \E n \in 0..MaxRecords :
          \E pv \in PositionVectors(n), rs \in RecordVectors(n) :
             files = FilesOf(variant, pv, rs)
    /\ detailed = NoFiles(variant)
    /\ all_listings = <<>>
    /\ unique_listings = <<>>
    /\ total_loaded = 0
    /\ unique_count = 0
    /\ pc = "start"
    /\ pos = [r |-> 1, i |-> 1]
    /\ runs = 0
    /\ first_run = <<>>
    /\ loaded_listings = <<>>
    /\ sg = NoCall
    /\ fn = NoDerivation
    /\ ex = NoExport

(***************************************************************************)
(* The steps of main.                                                      *)
(***************************************************************************)
\* total_loaded = processor.load_all_regional_data(); an exception ends main in its handler
LoadAllRegionalData ==
    /\ pc = "start"
    /\ LET res == load_all_regional_data(variant, files, detailed)
       IN  /\ all_listings' = res.all_listings
           /\ loaded_listings' = res.all_listings
           /\ total_loaded' = IF res.raised THEN total_loaded ELSE res.total
           /\ pc' = IF res.raised THEN "raised" ELSE "loaded"
    /\ UNCHANGED <<variant, files, detailed, unique_listings, unique_count, pos, runs,
                   first_run, sg, fn, ex>>

\* "if total_loaded == 0: ... return"
MainEmptyBatch ==
    /\ pc = "loaded"
    /\ total_loaded = 0
    /\ pc' = "empty_batch"
    /\ UNCHANGED <<variant, files, detailed, all_listings, unique_listings, total_loaded,
                   unique_count, pos, runs, first_run, loaded_listings, sg, fn, ex>>

\* the call made whatever the total
ConsolidateBegin_AnyTotal ==
    /\ pc = "loaded"
    /\ pc' = "consolidating"
    /\ pos' = FirstPos(all_listings)
    /\ runs' = runs + 1
    /\ UNCHANGED <<variant, files, detailed, all_listings, unique_listings, total_loaded,
                   unique_count, first_run, loaded_listings, sg, fn, ex>>

\* the call processor.consolidate_unique_listings() of main
ConsolidateBegin ==
    /\ pc = "loaded"
    /\ total_loaded # 0
    /\ pc' = "consolidating"
    /\ pos' = FirstPos(all_listings)
    /\ runs' = runs + 1
    /\ UNCHANGED <<variant, files, detailed, all_listings, unique_listings, total_loaded,
                   unique_count, first_run, loaded_listings, sg, fn, ex>>

\* one pass of the inner loop of consolidate_unique_listings
ConsolidateStep ==
    /\ pc = "consolidating"
    /\ pos.r <= Len(all_listings)
    /\ LET res == ConsolidateRecord(variant, all_listings, unique_listings, pos.r, pos.i)
       IN  /\ all_listings' = res.all_listings
           /\ unique_listings' = res.unique_listings
           /\ pc' = IF res.raised THEN "raised" ELSE "consolidating"
           /\ pos' = IF res.raised THEN pos ELSE NextPos(all_listings, pos)
           /\ first_run' = IF res.raised /\ runs = 1
                           THEN Canonical(res.all_listings, res.unique_listings)
                           ELSE first_run
    /\ UNCHANGED <<variant, files, detailed, total_loaded, unique_count, runs,
                   loaded_listings, sg, fn, ex>>

\* the end of the loops: "return len(self.unique_listings)"
ConsolidateReturn ==
    /\ pc = "consolidating"
    /\ pos.r > Len(all_listings)
    /\ unique_count' = Len(unique_listings)
    /\ pc' = "consolidated"
    /\ first_run' = IF runs = 1 THEN Canonical(all_listings, unique_listings) ELSE first_run
    /\ UNCHANGED <<variant, files, detailed, all_listings, unique_listings, total_loaded,
                   pos, runs, loaded_listings, sg, fn, ex>>

\* consolidate_unique_listings called once more on the same processor
ConsolidateAgain ==
    /\ pc \in {"consolidated", "raised"}
    /\ runs >= 1
    /\ runs < MaxRuns
    /\ pc' = "consolidating"
    /\ pos' = FirstPos(all_listings)
    /\ runs' = runs + 1
    /\ UNCHANGED <<variant, files, detailed, all_listings, unique_listings, total_loaded,
                   unique_count, first_run, loaded_listings, sg, fn, ex>>

Next ==
    \/ LoadAllRegionalData
    \/ MainEmptyBatch
    \/ ConsolidateBegin
    \/ ConsolidateStep
    \/ ConsolidateReturn
    \/ ConsolidateAgain

Spec == Init /\ [][Next]_vars

(***************************************************************************)
(* What the properties below speak about.                                  *)
(***************************************************************************)
\* the places <<r, i>> of the loaded records that are mappings
MappingPlaces ==
    UNION {{<<r, i>> : i \in {i \in 1..Len(loaded_listings[r].listings) :
                                IsDict(loaded_listings[r].listings[i])}} :
           r \in 1..Len(loaded_listings)}

RawAt(p) == loaded_listings[p[1]].listings[p[2]]

\* the places of the records from which the code extracts the identifier id
Sightings(id) == {p \in MappingPlaces : ListingId(RawAt(p)) = id}

\* a call of consolidate_unique_listings has returned
Consolidated == pc = "consolidated"

AsSet(seq) == {seq[n] : n \in 1..Len(seq)}
NoDuplicates(seq) == \A m, n \in 1..Len(seq) : seq[m] = seq[n] => m = n

\* For an identifier seen exactly twice, in record A and then in record B of a region
\* processed later: for every field of B the canonical record holds A's value if A has a
\* non-empty one, else B's.
FirstNonEmptyWins(v) ==
    (variant = v /\ Consolidated) =>
        \A n \in 1..Len(unique_listings) :
            \A a, b \in Sightings(unique_listings[n].id) :
                (a[1] < b[1] /\ Sightings(unique_listings[n].id) = {a, b}) =>
                    \A k \in Keys(RawAt(b)) :
                        Get(Listing(all_listings, unique_listings[n]), k) =
                            IF Has(RawAt(a), k) /\ Get(RawAt(a), k) \notin {PyNone, Str("")}
                            THEN Get(RawAt(a), k)
                            ELSE Get(RawAt(b), k)

\* C1: in the customer variant, when an identifier is seen first in a record A and then in
\* a record B of a later-processed region, for every field of B the canonical record keeps
\* A's value if it is non-empty and takes B's value if A lacks the field or holds None or ''.
C1_FirstNonEmptyWins == FirstNonEmptyWins("customer")

\* C1 witness: X is in commercial with description '' and in a later region with 'foo',
\* and the canonical record has taken 'foo'.
C1_Witness ==
    /\ variant = "customer"
    /\ Consolidated
    /\ \E n \in 1..Len(unique_listings) :
          /\ unique_listings[n].id = Str("X")
          /\ \E a, b \in Sightings(Str("X")) :
                /\ a[1] < b[1]
                /\ Sightings(Str("X")) = {a, b}
                /\ DictGet(RawAt(a), "description", PyNone) = Str("")
                /\ DictGet(RawAt(b), "description", PyNone) = Str("foo")
          /\ DictGet(Listing(all_listings, unique_listings[n]), "description", PyNone)
                = Str("foo")

\* C2: once consolidate_unique_listings has returned, the region set of every canonical
\* listing is exactly the set of region keys whose records contain that identifier, each
\* key once, whatever fields those records share.
C2_RegionSetExact ==
    Consolidated =>
        \A n \in 1..Len(unique_listings) :
            /\ AsSet(unique_listings[n].regions) =
                  {loaded_listings[p[1]].key : p \in Sightings(unique_listings[n].id)}
            /\ NoDuplicates(unique_listings[n].regions)

\* C2 witness: a listing found in two regions with the same non-empty description in both.
C2_Witness ==
    /\ Consolidated
    /\ \E n \in 1..Len(unique_listings) :
          /\ Len(unique_listings[n].regions) = 2
          /\ \E a, b \in Sightings(unique_listings[n].id) :
                /\ a[1] < b[1]
                /\ DictGet(RawAt(a), "description", PyNone) = Str("foo")
                /\ DictGet(RawAt(b), "description", PyNone) = Str("foo")

\* the identifiers the code extracts from the loaded records
LoadedIds == {ListingId(RawAt(p)) : p \in MappingPlaces}

\* C3: once consolidate_unique_listings has returned there is exactly one canonical entry
\* per distinct identifier of the loaded records, however many records carry it, and the
\* returned count is the number of distinct identifiers.
C3_OneEntryPerId ==
    Consolidated =>
        /\ \A id \in LoadedIds :
              Cardinality({n \in 1..Len(unique_listings) : unique_listings[n].id = id}) = 1
        /\ \A n \in 1..Len(unique_listings) : unique_listings[n].id \in LoadedIds
        /\ unique_count = Cardinality(LoadedIds)

\* C3 witness: two records carry the identifier X and the call returned with one entry.
C3_Witness ==
    /\ Consolidated
    /\ Cardinality(Sightings(Str("X"))) = 2
    /\ unique_count = 1

\* C4: no step removes a canonical entry or a region key of an entry: the entries keep
\* their place and identifier and their region sets only grow.
C4_OnlyGrow ==
    [][\A n \in 1..Len(unique_listings) :
          /\ n <= Len(unique_listings')
          /\ unique_listings'[n].id = unique_listings[n].id
          /\ AsSet(unique_listings[n].regions) \subseteq AsSet(unique_listings'[n].regions)]_vars

\* C4 witness: an entry whose region set has grown to two keys during the merge pass.
C4_Witness ==
    /\ pc = "consolidating"
    /\ \E n \in 1..Len(unique_listings) : Len(unique_listings[n].regions) = 2

\* C5: in the customer variant a further call of consolidate_unique_listings on the same
\* processor leaves the canonical listings as the first call left them: same identifiers,
\* field values, region sets and region-name lists, with no duplicate entry.
C5_Idempotent ==
    (variant = "customer" /\ runs >= 2 /\ pc \in {"consolidated", "raised"}) =>
        /\ Canonical(all_listings, unique_listings) = first_run
        /\ \A n \in 1..Len(unique_listings) :
              /\ NoDuplicates(unique_listings[n].regions)
              /\ NoDuplicates(unique_listings[n].region_names)

\* C5 witness: a second call has returned on a listing found in two regions.
C5_Witness ==
    /\ variant = "customer"
    /\ runs = 2
    /\ Consolidated
    /\ \E n \in 1..Len(unique_listings) : Len(unique_listings[n].region_names) = 2

\* a loaded record the specification calls malformed: no mapping, or no identifier
Malformed(rec) == ~IsDict(rec) \/ ~Has(rec, "id") \/ Get(rec, "id") \in {PyNone, Str("")}

LoadedPlaces ==
    UNION {{<<r, i>> : i \in 1..Len(loaded_listings[r].listings)} :
           r \in 1..Len(loaded_listings)}

\* every loaded record is a mapping with an identifier
WellFormedBatch == \A p \in LoadedPlaces : ~Malformed(RawAt(p))

\* C6: a raw record that is no mapping or has no identifier is left out of unique_listings
\* and every other record of the batch is still consolidated: the call is not aborted, no
\* entry stands for a record without identifier, every well-formed record has its entry.
C6_MalformedSkipped ==
    (runs >= 1 /\ pc \in {"consolidated", "raised"}) =>
        /\ pc = "consolidated"
        /\ \A n \in 1..Len(unique_listings) : unique_listings[n].id # Str("")
        /\ \A p \in LoadedPlaces :
              ~Malformed(RawAt(p)) => FindEntry(unique_listings, ListingId(RawAt(p))) # 0

\* C7: consolidate_unique_listings leaves every raw record of all_listings as it was loaded
\* (stated for the batches in which every record is well formed).
C7_RawUnchanged ==
    (runs >= 1 /\ WellFormedBatch) => all_listings = loaded_listings

\* C8: in the customer variant the primary_region of every canonical listing is, at every
\* step, the earliest region of region_files whose records contain the identifier.
C8_PrimaryRegionEarliest ==
    (variant = "customer") =>
        \A n \in 1..Len(unique_listings) :
            \E p \in Sightings(unique_listings[n].id) :
                /\ \A q \in Sightings(unique_listings[n].id) : p[1] <= q[1]
                /\ unique_listings[n].primary_region = region_files[p[1]].key

\* C8 witness: a listing found in two regions after the later one has been merged into it.
C8_Witness ==
    /\ variant = "customer"
    /\ Consolidated
    /\ \E n \in 1..Len(unique_listings) :
          /\ Len(unique_listings[n].regions) = 2
          /\ unique_listings[n].primary_region = "oc3_us_gov_east"

\* C9: in the all_regions variant a canonical value '' counts as empty: when an identifier
\* is seen in a record A holding '' in a field and then in a record B of a later-processed
\* region holding a text in that field, the canonical record takes B's value (stated for
\* the batches in which every record is well formed).
C9_EmptyStringIsEmpty ==
    (variant = "all_regions" /\ Consolidated /\ WellFormedBatch) =>
        \A n \in 1..Len(unique_listings) :
            \A a, b \in Sightings(unique_listings[n].id) :
                (a[1] < b[1] /\ Sightings(unique_listings[n].id) = {a, b}) =>
                    \A k \in Keys(RawAt(a)) \cap Keys(RawAt(b)) :
                        (Get(RawAt(a), k) = Str("") /\ Truthy(Get(RawAt(b), k))) =>
                            Get(Listing(all_listings, unique_listings[n]), k) = Get(RawAt(b), k)

(***************************************************************************)
(* Calls of safe_get on arbitrary records.                                 *)
(***************************************************************************)
SgKeys == {"pricing", "type"}
SgAtoms == {PyNone, Str(""), Str("FREE"), PyInt0, PyFalse, PyEmptyList}

\* the dicts over SgKeys whose values are drawn from vals
DictsOver(vals) ==
    UNION {{Dict({<<k, f[k]>> : k \in S}) : f \in [S -> vals]} : S \in SUBSET SgKeys}

SgFlatDicts == DictsOver(SgAtoms)
SgData == SgAtoms \cup DictsOver(SgAtoms \cup SgFlatDicts)

SgKeyArgs ==
    {[single |-> TRUE, key |-> k, path |-> <<>>] : k \in SgKeys}
    \cup {[single |-> FALSE, key |-> "", path |-> path] :
            path \in UNION {[1..n -> SgKeys] : n \in 0..MaxPathLen}}

SgDefaults == {Str(""), Str("Standard"), EmptyDict}

InitSafeGet ==
    /\ variant = "customer"
    /\ files = NoFiles(variant)
    /\ detailed = NoFiles(variant)
    /\ all_listings = <<>>
    /\ unique_listings = <<>>
    /\ total_loaded = 0
    /\ unique_count = 0
    /\ pc = "safe_get"
    /\ pos = [r |-> 1, i |-> 1]
    /\ runs = 0
    /\ first_run = <<>>
    /\ loaded_listings = <<>>
    /\ fn = NoDerivation
    /\ ex = NoExport
    /\ \E data \in SgData, keys \in SgKeyArgs, default \in SgDefaults :
          sg = [data |-> data, keys |-> keys, default |-> default, done |-> FALSE,
                result |-> Raised]

\* self.safe_get(data, keys, default)
SafeGetCall ==
    /\ pc = "safe_get"
    /\ ~sg.done
    /\ sg' = [sg EXCEPT !.done = TRUE, !.result = safe_get(sg.data, sg.keys, sg.default)]
    /\ UNCHANGED <<variant, files, detailed, all_listings, unique_listings, total_loaded,
                   unique_count, pc, pos, runs, first_run, loaded_listings, fn, ex>>

SpecSafeGet == InitSafeGet /\ [][SafeGetCall]_vars

\* the keys of a call as a path: the single-key form is a path of one key
SgPath(keys) == IF keys.single THEN <<keys.key>> ELSE keys.path

\* the value the path leads to: [found, value]
RECURSIVE Resolve(_, _)
Resolve(current, path) ==
    IF path = <<>> THEN [found |-> TRUE, value |-> current]
    ELSE IF IsDict(current) /\ Has(current, Head(path))
         THEN Resolve(Get(current, Head(path)), Tail(path))
         ELSE [found |-> FALSE, value |-> PyNone]

\* C10: on a record that is a mapping, safe_get returns default when a key of the path is
\* absent, an intermediate value is no mapping or the resolved value is None, and in every
\* other case returns the resolved value unchanged, in the single-key and the path form.
C10_SafeGetContract ==
    (sg.done /\ IsDict(sg.data)) =>
        LET res == Resolve(sg.data, SgPath(sg.keys))
        IN  sg.result = Returned(IF res.found /\ res.value # PyNone
                                 THEN res.value
                                 ELSE sg.default)

(***************************************************************************)
(* The price derivation built on safe_get.                                 *)
(***************************************************************************)
\* a single key as the keys argument of safe_get
Key(k) == [single |-> TRUE, key |-> k, path |-> <<>>]

\* a key sequence as the keys argument of safe_get
Path(p) == [single |-> FALSE, key |-> "", path |-> p]

\* str(x) of a value that is no container: its printed form
PyStr(x) == x.v

\* an outcome whose value is a text of the output row
Text(s) == [raised |-> FALSE, value |-> s]
RaisedText == [raised |-> TRUE, value |-> ""]

\* get_estimated_price(listing): pricing.get('type') raises on a value that has no get
get_estimated_price(listing) ==
    LET got == safe_get(listing, Key("pricing"), EmptyDict)
    IN  IF got.raised \/ ~IsDict(got.value) THEN RaisedText
        ELSE LET pricing == got.value
                 pricing_type == DictGet(pricing, "type", PyNone)
                 rate == DictGet(pricing, "rate", PyNone)
                 unit == DictGet(pricing, "unit", Str("hour"))
                 currency == DictGet(pricing, "currency", Str("USD"))
             IN  IF pricing_type = Str("FREE") THEN Text("Free")
                 ELSE IF pricing_type = Str("BYOL") THEN Text("License Required")
                 ELSE IF Truthy(rate)
                      THEN Text(PyStr(rate) \o " " \o PyStr(currency) \o "/" \o PyStr(unit))
                      ELSE Text("Contact for Pricing")

\* C11: safe_get never raises, whatever the shape of the data it is given, a record or
\* an intermediate value that is no mapping included, and get_estimated_price, built on
\* it, does not fail on a record whose 'pricing' value is no mapping.
C11_NeverRaises ==
    sg.done =>
        /\ ~sg.result.raised
        /\ IsDict(sg.data) => ~get_estimated_price(sg.data).raised

(***************************************************************************)
(* Texts.  A text that is searched, joined or lower-cased is the sequence  *)
(* of its characters; Chars gives the characters of every string literal   *)
(* of this module that is used as a text.                                  *)
(***************************************************************************)
\* BEGIN Chars
Chars ==
    ("" :> <<>>) @@
    ("0" :> <<"0">>) @@
    ("0.5" :> <<"0", ".", "5">>) @@
    ("Acme" :> <<"A", "c", "m", "e">>) @@
    ("Acme & Co" :> <<"A", "c", "m", "e", " ", "&", " ", "C", "o">>) @@
    ("Acme Security Suite" :> <<"A", "c", "m", "e", " ", "S", "e", "c", "u", "r", "i", "t",
        "y", " ", "S", "u", "i", "t", "e">>) @@
    ("BYOL" :> <<"B", "Y", "O", "L">>) @@
    ("Cisco  Systems" :> <<"C", "i", "s", "c", "o", " ", " ", "S", "y", "s", "t", "e", "m",
        "s">>) @@
    ("Databases" :> <<"D", "a", "t", "a", "b", "a", "s", "e", "s">>) @@
    ("FREE" :> <<"F", "R", "E", "E">>) @@
    ("False" :> <<"F", "a", "l", "s", "e">>) @@
    ("FedRAMP Moderate" :> <<"F", "e", "d", "R", "A", "M", "P", " ", "M", "o", "d", "e", "r",
        "a", "t", "e">>) @@
    ("IL6 ready" :> <<"I", "L", "6", " ", "r", "e", "a", "d", "y">>) @@
    ("L1" :> <<"L", "1">>) @@
    ("Networking" :> <<"N", "e", "t", "w", "o", "r", "k", "i", "n", "g">>) @@
    ("None" :> <<"N", "o", "n", "e">>) @@
    ("Oracle America" :> <<"O", "r", "a", "c", "l", "e", " ", "A", "m", "e", "r", "i", "c",
        "a">>) @@
    ("Red Hat" :> <<"R", "e", "d", " ", "H", "a", "t">>) @@
    ("Security" :> <<"S", "e", "c", "u", "r", "i", "t", "y">>) @@
    ("Standard" :> <<"S", "t", "a", "n", "d", "a", "r", "d">>) @@
    ("Storage" :> <<"S", "t", "o", "r", "a", "g", "e">>) @@
    ("USD" :> <<"U", "S", "D">>) @@
    ("Uncategorized" :> <<"U", "n", "c", "a", "t", "e", "g", "o", "r", "i", "z", "e", "d">>) @@
    ("Unknown" :> <<"U", "n", "k", "n", "o", "w", "n">>) @@
    ("Unknown Publisher" :> <<"U", "n", "k", "n", "o", "w", "n", " ", "P", "u", "b", "l", "i",
        "s", "h", "e", "r">>) @@
    ("X" :> <<"X">>) @@
    ("Y" :> <<"Y">>) @@
    ("['Security']" :> <<"[", "'", "S", "e", "c", "u", "r", "i", "t", "y", "'", "]">>) @@
    ("['Storage']" :> <<"[", "'", "S", "t", "o", "r", "a", "g", "e", "'", "]">>) @@
    ("['fedramp high']" :> <<"[", "'", "f", "e", "d", "r", "a", "m", "p", " ", "h", "i", "g",
        "h", "'", "]">>) @@
    ("['il5']" :> <<"[", "'", "i", "l", "5", "'", "]">>) @@
    ("['il6']" :> <<"[", "'", "i", "l", "6", "'", "]">>) @@
    ("[]" :> <<"[", "]">>) @@
    ("analytics" :> <<"a", "n", "a", "l", "y", "t", "i", "c", "s">>) @@
    ("auth" :> <<"a", "u", "t", "h">>) @@
    ("bar" :> <<"b", "a", "r">>) @@
    ("checkpoint" :> <<"c", "h", "e", "c", "k", "p", "o", "i", "n", "t">>) @@
    ("cisco" :> <<"c", "i", "s", "c", "o">>) @@
    ("citrix" :> <<"c", "i", "t", "r", "i", "x">>) @@
    ("classified" :> <<"c", "l", "a", "s", "s", "i", "f", "i", "e", "d">>) @@
    ("cmmc" :> <<"c", "m", "m", "c">>) @@
    ("cmmc l1" :> <<"c", "m", "m", "c", " ", "l", "1">>) @@
    ("cmmc l2" :> <<"c", "m", "m", "c", " ", "l", "2">>) @@
    ("cmmc l3" :> <<"c", "m", "m", "c", " ", "l", "3">>) @@
    ("cmmc level 1" :> <<"c", "m", "m", "c", " ", "l", "e", "v", "e", "l", " ", "1">>) @@
    ("cmmc level 2" :> <<"c", "m", "m", "c", " ", "l", "e", "v", "e", "l", " ", "2">>) @@
    ("cmmc level 3" :> <<"c", "m", "m", "c", " ", "l", "e", "v", "e", "l", " ", "3">>) @@
    ("commercial" :> <<"c", "o", "m", "m", "e", "r", "c", "i", "a", "l">>) @@
    ("compliance" :> <<"c", "o", "m", "p", "l", "i", "a", "n", "c", "e">>) @@
    ("crowdstrike" :> <<"c", "r", "o", "w", "d", "s", "t", "r", "i", "k", "e">>) @@
    ("database" :> <<"d", "a", "t", "a", "b", "a", "s", "e">>) @@
    ("defense" :> <<"d", "e", "f", "e", "n", "s", "e">>) @@
    ("dod" :> <<"d", "o", "d">>) @@
    ("dod cloud" :> <<"d", "o", "d", " ", "c", "l", "o", "u", "d">>) @@
    ("encryption" :> <<"e", "n", "c", "r", "y", "p", "t", "i", "o", "n">>) @@
    ("f5" :> <<"f", "5">>) @@
    ("federal" :> <<"f", "e", "d", "e", "r", "a", "l">>) @@
    ("federal compliance" :> <<"f", "e", "d", "e", "r", "a", "l", " ", "c", "o", "m", "p", "l",
        "i", "a", "n", "c", "e">>) @@
    ("fedramp" :> <<"f", "e", "d", "r", "a", "m", "p">>) @@
    ("fedramp authorized" :> <<"f", "e", "d", "r", "a", "m", "p", " ", "a", "u", "t", "h", "o",
        "r", "i", "z", "e", "d">>) @@
    ("fedramp high" :> <<"f", "e", "d", "r", "a", "m", "p", " ", "h", "i", "g", "h">>) @@
    ("fedramp low" :> <<"f", "e", "d", "r", "a", "m", "p", " ", "l", "o", "w">>) @@
    ("fedramp moderate" :> <<"f", "e", "d", "r", "a", "m", "p", " ", "m", "o", "d", "e", "r",
        "a", "t", "e">>) @@
    ("firewall" :> <<"f", "i", "r", "e", "w", "a", "l", "l">>) @@
    ("fisma" :> <<"f", "i", "s", "m", "a">>) @@
    ("foo" :> <<"f", "o", "o">>) @@
    ("fortinet" :> <<"f", "o", "r", "t", "i", "n", "e", "t">>) @@
    ("government certified" :> <<"g", "o", "v", "e", "r", "n", "m", "e", "n", "t", " ", "c",
        "e", "r", "t", "i", "f", "i", "e", "d">>) @@
    ("hour" :> <<"h", "o", "u", "r">>) @@
    ("il2" :> <<"i", "l", "2">>) @@
    ("il4" :> <<"i", "l", "4">>) @@
    ("il5" :> <<"i", "l", "5">>) @@
    ("il6" :> <<"i", "l", "6">>) @@
    ("impact level 2" :> <<"i", "m", "p", "a", "c", "t", " ", "l", "e", "v", "e", "l", " ",
        "2">>) @@
    ("impact level 4" :> <<"i", "m", "p", "a", "c", "t", " ", "l", "e", "v", "e", "l", " ",
        "4">>) @@
    ("impact level 5" :> <<"i", "m", "p", "a", "c", "t", " ", "l", "e", "v", "e", "l", " ",
        "5">>) @@
    ("impact level 6" :> <<"i", "m", "p", "a", "c", "t", " ", "l", "e", "v", "e", "l", " ",
        "6">>) @@
    ("keywords" :> <<"k", "e", "y", "w", "o", "r", "d", "s">>) @@
    ("legacy_us_dod" :> <<"l", "e", "g", "a", "c", "y", "_", "u", "s", "_", "d", "o", "d">>) @@
    ("legacy_us_dod_central" :> <<"l", "e", "g", "a", "c", "y", "_", "u", "s", "_", "d", "o",
        "d", "_", "c", "e", "n", "t", "r", "a", "l">>) @@
    ("legacy_us_dod_east" :> <<"l", "e", "g", "a", "c", "y", "_", "u", "s", "_", "d", "o", "d",
        "_", "e", "a", "s", "t">>) @@
    ("legacy_us_dod_west" :> <<"l", "e", "g", "a", "c", "y", "_", "u", "s", "_", "d", "o", "d",
        "_", "w", "e", "s", "t">>) @@
    ("microsoft" :> <<"m", "i", "c", "r", "o", "s", "o", "f", "t">>) @@
    ("monitoring" :> <<"m", "o", "n", "i", "t", "o", "r", "i", "n", "g">>) @@
    ("name" :> <<"n", "a", "m", "e">>) @@
    ("networking" :> <<"n", "e", "t", "w", "o", "r", "k", "i", "n", "g">>) @@
    ("not-a-listing" :> <<"n", "o", "t", "-", "a", "-", "l", "i", "s", "t", "i", "n", "g">>) @@
    ("oc2_us_dod_east" :> <<"o", "c", "2", "_", "u", "s", "_", "d", "o", "d", "_", "e", "a",
        "s", "t">>) @@
    ("oc2_us_dod_west" :> <<"o", "c", "2", "_", "u", "s", "_", "d", "o", "d", "_", "w", "e",
        "s", "t">>) @@
    ("oc3_us_gov" :> <<"o", "c", "3", "_", "u", "s", "_", "g", "o", "v">>) @@
    ("oc3_us_gov_east" :> <<"o", "c", "3", "_", "u", "s", "_", "g", "o", "v", "_", "e", "a",
        "s", "t">>) @@
    ("oc3_us_gov_west" :> <<"o", "c", "3", "_", "u", "s", "_", "g", "o", "v", "_", "w", "e",
        "s", "t">>) @@
    ("ocid1.marketplace.listing." :> <<"o", "c", "i", "d", "1", ".", "m", "a", "r", "k", "e",
        "t", "p", "l", "a", "c", "e", ".", "l", "i", "s", "t", "i", "n", "g", ".">>) @@
    ("ocid1.marketplace.listing.Y" :> <<"o", "c", "i", "d", "1", ".", "m", "a", "r", "k", "e",
        "t", "p", "l", "a", "c", "e", ".", "l", "i", "s", "t", "i", "n", "g", ".", "Y">>) @@
    ("oracle" :> <<"o", "r", "a", "c", "l", "e">>) @@
    ("palo alto" :> <<"p", "a", "l", "o", " ", "a", "l", "t", "o">>) @@
    ("plain" :> <<"p", "l", "a", "i", "n">>) @@
    ("provides firewall protection" :> <<"p", "r", "o", "v", "i", "d", "e", "s", " ", "f", "i",
        "r", "e", "w", "a", "l", "l", " ", "p", "r", "o", "t", "e", "c", "t", "i", "o", "n">>) @@
    ("red hat" :> <<"r", "e", "d", " ", "h", "a", "t">>) @@
    ("security" :> <<"s", "e", "c", "u", "r", "i", "t", "y">>) @@
    ("splunk" :> <<"s", "p", "l", "u", "n", "k">>) @@
    ("tags" :> <<"t", "a", "g", "s">>) @@
    ("uk_gov" :> <<"u", "k", "_", "g", "o", "v">>) @@
    ("us_dod" :> <<"u", "s", "_", "d", "o", "d">>) @@
    ("us_dod_central" :> <<"u", "s", "_", "d", "o", "d", "_", "c", "e", "n", "t", "r", "a",
        "l">>) @@
    ("us_dod_east" :> <<"u", "s", "_", "d", "o", "d", "_", "e", "a", "s", "t">>) @@
    ("us_dod_west" :> <<"u", "s", "_", "d", "o", "d", "_", "w", "e", "s", "t">>) @@
    ("us_gov_east" :> <<"u", "s", "_", "g", "o", "v", "_", "e", "a", "s", "t">>) @@
    ("us_gov_west" :> <<"u", "s", "_", "g", "o", "v", "_", "w", "e", "s", "t">>) @@
    ("vmware" :> <<"v", "m", "w", "a", "r", "e">>) @@
    ("vpn" :> <<"v", "p", "n">>)
\* END Chars

\* the characters of the string literal s
S(s) == Chars[s]

UpperCase == <<"A", "B", "C", "D", "E", "F", "G", "H", "I", "J", "K", "L", "M",
               "N", "O", "P", "Q", "R", "S", "T", "U", "V", "W", "X", "Y", "Z">>
LowerCase == <<"a", "b", "c", "d", "e", "f", "g", "h", "i", "j", "k", "l", "m",
               "n", "o", "p", "q", "r", "s", "t", "u", "v", "w", "x", "y", "z">>
Digits == <<"0", "1", "2", "3", "4", "5", "6", "7", "8", "9">>

\* c.lower() of one character
LowerChar(c) ==
    IF \E n \in 1..Len(UpperCase) : UpperCase[n] = c
    THEN LowerCase[CHOOSE n \in 1..Len(UpperCase) : UpperCase[n] = c]
    ELSE c

\* text.lower()
Lower(text) == [n \in 1..Len(text) |-> LowerChar(text[n])]

\* "term in text" of two strings
Contains(term, text) ==
    \E n \in 0..(Len(text) - Len(term)) : SubSeq(text, n + 1, n + Len(term)) = term

\* "any(term in text for term in terms)"
ContainsAny(terms, text) == \E n \in 1..Len(terms) : Contains(terms[n], text)

\* text.startswith(prefix)
StartsWith(text, prefix) ==
    Len(prefix) <= Len(text) /\ SubSeq(text, 1, Len(prefix)) = prefix

\* ' '.join(parts)
RECURSIVE JoinSpace(_)
JoinSpace(parts) ==
    IF parts = <<>> THEN <<>>
    ELSE IF Len(parts) = 1 THEN parts[1]
    ELSE parts[1] \o <<" ">> \o JoinSpace(Tail(parts))

\* str(x) as a text: a string is itself, any other value is its printed form
StrChars(x) == Chars[x.v]

\* a list of strings, given by its printed form and its elements
PyList(printed, elements) ==
    [tag |-> "list", v |-> printed,
     items |-> {<<Digits[n], elements[n]>> : n \in 1..Len(elements)}]

\* categories[0] of a list that is not empty
ListHead(x) == Get(x, "0")

(***************************************************************************)
(* get_listing_text_content(listing): the corpus the classifiers search.   *)
(* The customer variant joins four parts, the all_regions variant five.    *)
(***************************************************************************)
TextFields(v) ==
    IF v = "customer"
    THEN << [key |-> "name", default |-> Str("")],
            [key |-> "short-description", default |-> Str("")],
            [key |-> "long-description", default |-> Str("")],
            [key |-> "tags", default |-> PyEmptyList] >>
    ELSE << [key |-> "name", default |-> Str("")],
            [key |-> "short-description", default |-> Str("")],
            [key |-> "long-description", default |-> Str("")],
            [key |-> "tags", default |-> PyEmptyList],
            [key |-> "keywords", default |-> PyEmptyList] >>

\* the list text_parts
text_parts(v, listing) ==
    [n \in 1..Len(TextFields(v)) |->
        StrChars(safe_get(listing, Key(TextFields(v)[n].key), TextFields(v)[n].default).value)]

\* the outcome [raised, text]: safe_get raises on a listing that is no dict
get_listing_text_content(v, listing) ==
    IF ~IsDict(listing) THEN [raised |-> TRUE, text |-> <<>>]
    ELSE [raised |-> FALSE, text |-> Lower(JoinSpace(text_parts(v, listing)))]

(***************************************************************************)
(* The classifiers.  Each searches the corpus for its keywords in a fixed  *)
(* order and returns the label of the first rule that matches; each raises *)
(* where get_listing_text_content raises.                                  *)
(***************************************************************************)
\* the chain with an empty label where no rule matches
FedrampOf_EmptyDefault(v, text_content) ==
    IF v = "customer"
    THEN IF Contains(S("fedramp high"), text_content) THEN "FedRAMP High"
         ELSE IF Contains(S("fedramp moderate"), text_content) THEN "FedRAMP Moderate"
         ELSE IF Contains(S("fedramp low"), text_content)
                 \/ Contains(S("fedramp authorized"), text_content) THEN "FedRAMP Low"
         ELSE IF Contains(S("fedramp"), text_content) THEN "FedRAMP Ready"
         ELSE IF ContainsAny(<<S("fisma"), S("federal compliance")>>, text_content)
              THEN "Federal Ready"
         ELSE ""
    ELSE IF Contains(S("fedramp high"), text_content) THEN "FedRAMP High"
         ELSE IF Contains(S("fedramp moderate"), text_content) THEN "FedRAMP Moderate"
         ELSE IF Contains(S("fedramp low"), text_content)
                 \/ Contains(S("fedramp"), text_content) THEN "FedRAMP Ready"
         ELSE IF ContainsAny(<<S("federal"), S("government certified"), S("fisma")>>,
                             text_content)
              THEN "FedRAMP Candidate"
         ELSE ""

\* the chain with the generic keyword tested first
FedrampOf_GenericFirst(v, text_content) ==
    IF Contains(S("fedramp"), text_content) THEN "FedRAMP Ready"
    ELSE IF Contains(S("fedramp high"), text_content) THEN "FedRAMP High"
    ELSE IF Contains(S("fedramp moderate"), text_content) THEN "FedRAMP Moderate"
    ELSE IF v = "customer"
            /\ ContainsAny(<<S("fisma"), S("federal compliance")>>, text_content)
    THEN "Federal Ready"
    ELSE IF v = "all_regions"
            /\ ContainsAny(<<S("federal"), S("government certified"), S("fisma")>>,
                           text_content)
    THEN "FedRAMP Candidate"
    ELSE "Not Specified"

\* the if/elif chain of determine_fedramp_status on the corpus
FedrampOf(v, text_content) ==
    IF v = "customer"
    THEN IF Contains(S("fedramp high"), text_content) THEN "FedRAMP High"
         ELSE IF Contains(S("fedramp moderate"), text_content) THEN "FedRAMP Moderate"
         ELSE IF Contains(S("fedramp low"), text_content)
                 \/ Contains(S("fedramp authorized"), text_content) THEN "FedRAMP Low"
         ELSE IF Contains(S("fedramp"), text_content) THEN "FedRAMP Ready"
         ELSE IF ContainsAny(<<S("fisma"), S("federal compliance")>>, text_content)
              THEN "Federal Ready"
         ELSE "Not Specified"
    ELSE IF Contains(S("fedramp high"), text_content) THEN "FedRAMP High"
         ELSE IF Contains(S("fedramp moderate"), text_content) THEN "FedRAMP Moderate"
         ELSE IF Contains(S("fedramp low"), text_content)
                 \/ Contains(S("fedramp"), text_content) THEN "FedRAMP Ready"
         ELSE IF ContainsAny(<<S("federal"), S("government certified"), S("fisma")>>,
                             text_content)
              THEN "FedRAMP Candidate"
         ELSE "Not Specified"

determine_fedramp_status(v, listing) ==
    LET content == get_listing_text_content(v, listing)
    IN  IF content.raised THEN RaisedText ELSE Text(FedrampOf(v, content.text))

\* the chain with the rules tested from the lowest level upwards
ImpactLevelOf_LowestFirst(v, text_content) ==
    IF Contains(S("il2"), text_content) \/ Contains(S("impact level 2"), text_content)
    THEN (IF v = "customer" THEN "IL2 (Unclassified)" ELSE "IL2")
    ELSE IF Contains(S("il4"), text_content) \/ Contains(S("impact level 4"), text_content)
    THEN (IF v = "customer" THEN "IL4 (CUI)" ELSE "IL4")
    ELSE IF Contains(S("il5"), text_content) \/ Contains(S("impact level 5"), text_content)
    THEN (IF v = "customer" THEN "IL5 (CUI High)" ELSE "IL5")
    ELSE IF Contains(S("il6"), text_content) \/ Contains(S("impact level 6"), text_content)
    THEN "IL6 (Secret)"
    ELSE "Not Specified"

\* the if/elif chain of determine_impact_level on the corpus
ImpactLevelOf(v, text_content) ==
    IF Contains(S("il6"), text_content) \/ Contains(S("impact level 6"), text_content)
    THEN "IL6 (Secret)"
    ELSE IF Contains(S("il5"), text_content) \/ Contains(S("impact level 5"), text_content)
    THEN (IF v = "customer" THEN "IL5 (CUI High)" ELSE "IL5")
    ELSE IF Contains(S("il4"), text_content) \/ Contains(S("impact level 4"), text_content)
    THEN (IF v = "customer" THEN "IL4 (CUI)" ELSE "IL4")
    ELSE IF Contains(S("il2"), text_content) \/ Contains(S("impact level 2"), text_content)
    THEN (IF v = "customer" THEN "IL2 (Unclassified)" ELSE "IL2")
    ELSE IF v = "customer"
            /\ ContainsAny(<<S("dod"), S("defense"), S("classified")>>, text_content)
    THEN "DoD Compatible"
    ELSE "Not Specified"

determine_impact_level(v, listing) ==
    LET content == get_listing_text_content(v, listing)
    IN  IF content.raised THEN RaisedText ELSE Text(ImpactLevelOf(v, content.text))

\* OCIMarketplaceProcessor of process_oci_data.py: the text its determine_impact_level
\* searches, ' '.join of str(listing.get(key, '')) for name and the two descriptions
data_text_content(listing) ==
    Lower(JoinSpace(<<StrChars(DictGet(listing, "name", Str(""))),
                      StrChars(DictGet(listing, "short-description", Str(""))),
                      StrChars(DictGet(listing, "long-description", Str("")))>>))

\* the list levels: three independent tests, each appending its level
data_impact_levels(text_content) ==
    (IF Contains(S("il2"), text_content) \/ Contains(S("impact level 2"), text_content)
     THEN <<"IL2">> ELSE <<>>)
    \o (IF Contains(S("il4"), text_content) \/ Contains(S("impact level 4"), text_content)
        THEN <<"IL4">> ELSE <<>>)
    \o (IF Contains(S("il5"), text_content) \/ Contains(S("impact level 5"), text_content)
        THEN <<"IL5">> ELSE <<>>)

\* '; '.join(levels)
RECURSIVE JoinSemicolon(_)
JoinSemicolon(levels) ==
    IF Len(levels) = 0 THEN ""
    ELSE IF Len(levels) = 1 THEN levels[1]
    ELSE levels[1] \o "; " \o JoinSemicolon(Tail(levels))

\* determine_impact_level of process_oci_data.py; the result None is recorded as "None";
\* listing.get raises on a listing that is no dict
data_determine_impact_level(listing) ==
    IF ~IsDict(listing) THEN RaisedText
    ELSE LET levels == data_impact_levels(data_text_content(listing))
         IN  Text(IF Len(levels) > 0 THEN JoinSemicolon(levels) ELSE "None")

\* the if/elif chain of determine_cmmc_level on the corpus
CmmcOf(v, text_content) ==
    IF Contains(S("cmmc level 3"), text_content) \/ Contains(S("cmmc l3"), text_content)
    THEN "CMMC Level 3"
    ELSE IF Contains(S("cmmc level 2"), text_content) \/ Contains(S("cmmc l2"), text_content)
    THEN "CMMC Level 2"
    ELSE IF \/ v = "all_regions" /\ Contains(S("cmmc level 1"), text_content)
            \/ v = "all_regions" /\ Contains(S("cmmc l1"), text_content)
            \/ Contains(S("cmmc"), text_content)
    THEN "CMMC Level 1+"
    ELSE "Not Specified"

determine_cmmc_level(v, listing) ==
    LET content == get_listing_text_content(v, listing)
    IN  IF content.raised THEN RaisedText ELSE Text(CmmcOf(v, content.text))

security_terms ==
    <<S("security"), S("firewall"), S("vpn"), S("encryption"), S("auth"), S("compliance")>>

\* is_security_focused(listing) of the customer variant: [raised, value]
is_security_focused(v, listing) ==
    LET content == get_listing_text_content(v, listing)
    IN  [raised |-> content.raised,
         value |-> ~content.raised /\ ContainsAny(security_terms, content.text)]

(***************************************************************************)
(* Publisher and category, as texts.                                       *)
(***************************************************************************)
Whitespace == {" ", "\t", "\n"}

\* text.split(): the words between runs of whitespace
RECURSIVE SplitFrom(_, _, _)
SplitFrom(text, n, word) ==
    IF n > Len(text) THEN (IF word = <<>> THEN <<>> ELSE <<word>>)
    ELSE IF text[n] \in Whitespace
         THEN (IF word = <<>> THEN <<>> ELSE <<word>>) \o SplitFrom(text, n + 1, <<>>)
         ELSE SplitFrom(text, n + 1, Append(word, text[n]))

\* the characters re.sub(r'[^\w\s\-\.\,\(\)\[\]\/\:\;]', '', text) keeps
Kept(c) ==
    \/ \E n \in 1..Len(UpperCase) : c = UpperCase[n] \/ c = LowerCase[n]
    \/ \E n \in 1..Len(Digits) : c = Digits[n]
    \/ c \in Whitespace \cup {"_", "-", ".", ",", "(", ")", "[", "]", "/", ":", ";"}

\* text[:max_length-3] + '...' when the text is longer than max_length
Truncate(text, max_length) ==
    IF Len(text) > max_length
    THEN SubSeq(text, 1, max_length - 3) \o <<".", ".", ".">>
    ELSE text

\* the cleaning steps of clean_text on the characters of str(text); only the customer
\* variant strips characters
CleanChars(v, chars, max_length) ==
    LET joined == JoinSpace(SplitFrom(chars, 1, <<>>))
    IN  Truncate(IF v = "customer" THEN SelectSeq(joined, Kept) ELSE joined, max_length)

\* clean_text(text, max_length) of a value
clean_text(v, text, max_length) ==
    IF ~Truthy(text) THEN <<>> ELSE CleanChars(v, StrChars(text), max_length)

\* get_publisher_name(listing) of a listing that is a dict, as str() of what it returns
get_publisher_name(v, listing) ==
    LET publisher == safe_get(listing, Key("publisher"), EmptyDict).value
        name == PyOr(DictGet(publisher, "name", PyNone),
                     DictGet(publisher, "display-name", PyNone))
    IN  IF v = "customer"
        THEN IF IsDict(publisher) /\ Truthy(name) THEN clean_text(v, name, 50)
             ELSE IF Truthy(publisher) THEN CleanChars(v, StrChars(publisher), 50)
             ELSE S("Unknown Publisher")
        ELSE IF IsDict(publisher)
             THEN StrChars(PyOr(name, Str("Unknown")))
             ELSE IF Truthy(publisher) THEN StrChars(publisher) ELSE S("Unknown")

\* get_category(listing) of a listing that is a dict, as str() of what it returns
get_category(v, listing) ==
    LET categories == PyOr(safe_get(listing, Key("categories"), Str("")).value,
                           safe_get(listing, Key("category-facet"), Str("")).value)
    IN  IF v = "customer"
        THEN IF Truthy(categories) /\ categories.tag = "list"
             THEN clean_text(v, ListHead(categories), 30)
             ELSE IF Truthy(categories) /\ categories.tag = "str"
             THEN clean_text(v, categories, 30)
             ELSE S("Uncategorized")
        ELSE IF Truthy(categories) /\ categories.tag = "list"
             THEN StrChars(ListHead(categories))
             ELSE IF categories.tag = "str" THEN StrChars(categories)
             ELSE S("Uncategorized")

(***************************************************************************)
(* The scorers and the authorization level.  regions is the dict           *)
(* entry['regions'], kept as the sequence of its keys: every value is True.*)
(***************************************************************************)
\* regions.get(key)
InRegion(regions, key) == \E n \in 1..Len(regions) : regions[n] = key

\* any(k.startswith(prefix) for k in regions)
AnyStartsWith(regions, prefix) ==
    \E n \in 1..Len(regions) : StartsWith(S(regions[n]), S(prefix))

PyMin(a, b) == IF a <= b THEN a ELSE b
PyMax(a, b) == IF a >= b THEN a ELSE b

tier1_publishers(v) ==
    IF v = "customer"
    THEN <<S("oracle"), S("microsoft"), S("vmware"), S("cisco"), S("palo alto"),
           S("fortinet")>>
    ELSE <<S("microsoft"), S("vmware"), S("palo alto"), S("fortinet"), S("splunk"),
           S("cisco")>>

tier2_publishers ==
    <<S("red hat"), S("citrix"), S("f5"), S("checkpoint"), S("crowdstrike")>>

high_value_categories(v) ==
    IF v = "customer"
    THEN <<S("security"), S("networking"), S("database"), S("analytics"), S("monitoring")>>
    ELSE <<S("security"), S("networking"), S("database"), S("analytics")>>

\* the score with the customer variant's realms tested from the lowest delta up
SalesScoreSum_LowestFirst(v, listing, regions) ==
    LET publisher == Lower(get_publisher_name(v, listing))
        category == Lower(get_category(v, listing))
        category_points == IF ContainsAny(high_value_categories(v), category) THEN 1 ELSE 0
    IN  IF v = "customer"
        THEN 5
             + (IF AnyStartsWith(regions, "legacy_us_dod") THEN 1
                ELSE IF AnyStartsWith(regions, "oc3_us_gov") THEN 2
                ELSE IF InRegion(regions, "oc2_us_dod_east")
                        \/ InRegion(regions, "oc2_us_dod_west")
                THEN 3
                ELSE 0)
             + (IF ContainsAny(tier1_publishers(v), publisher) THEN 2 ELSE 0)
             + category_points
        ELSE 5
             + (IF ContainsAny(tier1_publishers(v), publisher) THEN 2
                ELSE IF ContainsAny(tier2_publishers, publisher) THEN 1
                ELSE 0)
             + (IF InRegion(regions, "us_gov_east") \/ InRegion(regions, "us_gov_west")
                THEN 1 ELSE 0)
             + (IF AnyStartsWith(regions, "us_dod") THEN 2 ELSE 0)
             + category_points
             + (IF determine_fedramp_status(v, listing).value # "Not Specified" THEN 1 ELSE 0)

\* the score of calculate_sales_priority_score before the final clamp
SalesScoreSum(v, listing, regions) ==
    LET publisher == Lower(get_publisher_name(v, listing))
        category == Lower(get_category(v, listing))
        category_points == IF ContainsAny(high_value_categories(v), category) THEN 1 ELSE 0
    IN  IF v = "customer"
        THEN 5
             + (IF InRegion(regions, "oc2_us_dod_east") \/ InRegion(regions, "oc2_us_dod_west")
                THEN 3
                ELSE IF AnyStartsWith(regions, "oc3_us_gov") THEN 2
                ELSE IF AnyStartsWith(regions, "legacy_us_dod") THEN 1
                ELSE 0)
             + (IF ContainsAny(tier1_publishers(v), publisher) THEN 2 ELSE 0)
             + category_points
        ELSE 5
             + (IF ContainsAny(tier1_publishers(v), publisher) THEN 2
                ELSE IF ContainsAny(tier2_publishers, publisher) THEN 1
                ELSE 0)
             + (IF InRegion(regions, "us_gov_east") \/ InRegion(regions, "us_gov_west")
                THEN 1 ELSE 0)
             + (IF AnyStartsWith(regions, "us_dod") THEN 2 ELSE 0)
             + category_points
             + (IF determine_fedramp_status(v, listing).value # "Not Specified" THEN 1 ELSE 0)

\* the score returned without its upper limit
calculate_sales_priority_score_Unclamped(v, listing, regions) ==
    PyMax(1, SalesScoreSum(v, listing, regions))

\* calculate_sales_priority_score(listing, regions) of a listing that is a dict
calculate_sales_priority_score(v, listing, regions) ==
    PyMin(10, PyMax(1, SalesScoreSum(v, listing, regions)))

\* the score with the legacy realm counted next to the current DoD realm
GovScoreSum_Independent(listing, regions) ==
    (IF InRegion(regions, "oc2_us_dod_east") \/ InRegion(regions, "oc2_us_dod_west")
     THEN 6 ELSE 0)
    + (IF AnyStartsWith(regions, "legacy_us_dod") THEN 4 ELSE 0)
    + (IF InRegion(regions, "oc3_us_gov_east") \/ InRegion(regions, "oc3_us_gov_west")
       THEN 3 ELSE 0)
    + (IF is_security_focused("customer", listing).value THEN 2 ELSE 0)
    + (IF determine_fedramp_status("customer", listing).value # "Not Specified"
       THEN 1 ELSE 0)
    + (IF determine_cmmc_level("customer", listing).value # "Not Specified" THEN 1 ELSE 0)

\* the score of calculate_gov_sales_priority (customer variant) before the thresholds
GovScoreSum(listing, regions) ==
    (IF InRegion(regions, "oc2_us_dod_east") \/ InRegion(regions, "oc2_us_dod_west")
     THEN 6
     ELSE IF AnyStartsWith(regions, "legacy_us_dod") THEN 4
     ELSE 0)
    + (IF InRegion(regions, "oc3_us_gov_east") \/ InRegion(regions, "oc3_us_gov_west")
       THEN 3 ELSE 0)
    + (IF is_security_focused("customer", listing).value THEN 2 ELSE 0)
    + (IF determine_fedramp_status("customer", listing).value # "Not Specified"
       THEN 1 ELSE 0)
    + (IF determine_cmmc_level("customer", listing).value # "Not Specified" THEN 1 ELSE 0)

\* the priority with CRITICAL from 7 points
calculate_gov_sales_priority_CriticalFromSeven(listing, regions) ==
    LET score == GovScoreSum(listing, regions)
    IN  IF score >= 7 THEN "CRITICAL"
        ELSE IF score >= 5 THEN "HIGH"
        ELSE IF score >= 3 THEN "MEDIUM"
        ELSE "LOW"

\* calculate_gov_sales_priority(listing, regions) of a listing that is a dict
calculate_gov_sales_priority(listing, regions) ==
    LET score == GovScoreSum(listing, regions)
    IN  IF score >= 8 THEN "CRITICAL"
        ELSE IF score >= 5 THEN "HIGH"
        ELSE IF score >= 3 THEN "MEDIUM"
        ELSE "LOW"

\* the level with the legacy realm tested before the current DoD realm
determine_gov_authorization_level_LegacyFirst(regions) ==
    IF AnyStartsWith(regions, "legacy_us_dod") THEN "DoD Legacy Authorized"
    ELSE IF InRegion(regions, "oc2_us_dod_east") \/ InRegion(regions, "oc2_us_dod_west")
    THEN "DoD Impact Level Ready"
    ELSE IF InRegion(regions, "oc3_us_gov_east") \/ InRegion(regions, "oc3_us_gov_west")
    THEN "FedRAMP Authority"
    ELSE "Commercial Only"

\* determine_gov_authorization_level(regions)['level'] (customer variant)
determine_gov_authorization_level(regions) ==
    IF InRegion(regions, "oc2_us_dod_east") \/ InRegion(regions, "oc2_us_dod_west")
    THEN "DoD Impact Level Ready"
    ELSE IF AnyStartsWith(regions, "legacy_us_dod") THEN "DoD Legacy Authorized"
    ELSE IF InRegion(regions, "oc3_us_gov_east") \/ InRegion(regions, "oc3_us_gov_west")
    THEN "FedRAMP Authority"
    ELSE "Commercial Only"

(***************************************************************************)
(* Calls of the classifiers and scorers on arbitrary listings and region   *)
(* sets.                                                                   *)
(***************************************************************************)
\* a field of a listing that is present with the value x, and a field that is absent
Field(key, x) == {<<key, x>>}
Absent == {}

\* the texts a description carries
Phrases ==
    {"il4", "IL6 ready", "impact level 5", "il2", "dod cloud", "fedramp high",
     "FedRAMP Moderate", "fedramp low", "fedramp authorized", "fedramp", "fisma",
     "federal compliance", "government certified", "cmmc level 3", "cmmc l2", "cmmc",
     "firewall", "plain"}

\* listings for the classifiers: every text field present or absent
TextListings ==
    {Dict(name \cup short \cup long \cup tags \cup keywords) :
        name \in {Absent, Field("name", Str("Acme"))},
        short \in {Absent, Field("short-description", PyNone)}
                  \cup {Field("short-description", Str(p)) : p \in Phrases},
        long \in {Absent} \cup {Field("long-description", Str(p)) : p \in Phrases},
        tags \in {Absent, Field("tags", PyList("['il5']", <<Str("il5")>>))},
        keywords \in {Absent,
                      Field("keywords", PyList("['fedramp high']", <<Str("fedramp high")>>)),
                      Field("keywords", PyList("['il6']", <<Str("il6")>>))}}

\* listings for calculate_sales_priority_score: publishers and categories of every shape
ScoreListings ==
    {Dict(publisher \cup categories \cup long) :
        publisher \in {Absent,
                       Field("publisher", Dict(Field("name", Str("Oracle America")))),
                       Field("publisher", Dict(Field("display-name", Str("Red Hat")))),
                       Field("publisher", Dict(Field("name", Str("Acme & Co")))),
                       Field("publisher", Str("Cisco  Systems"))},
        categories \in {Absent,
                        Field("categories", PyList("['Security']", <<Str("Security")>>)),
                        Field("categories", PyList("['Storage']", <<Str("Storage")>>)),
                        Field("categories", Str("Databases")),
                        Field("category-facet", Str("Networking"))},
        long \in {Absent, Field("long-description", Str("fedramp high"))}}

\* listings for calculate_gov_sales_priority: each text signal present or absent
SignalListings ==
    {Dict(name \cup short \cup long) :
        name \in {Absent, Field("name", Str("cmmc"))},
        short \in {Absent, Field("short-description", Str("firewall"))},
        long \in {Absent, Field("long-description", Str("fedramp high")),
                  Field("long-description", Str("federal compliance"))}}

\* the keys of the region list at the positions of chosen, in the order of the list
RECURSIVE PickKeys(_, _, _)
PickKeys(v, chosen, n) ==
    IF n > Len(RegionList(v)) THEN <<>>
    ELSE (IF n \in chosen THEN <<RegionList(v)[n].key>> ELSE <<>>)
         \o PickKeys(v, chosen, n + 1)

\* the region sets an entry can have: the listing was seen in one region at least
RegionSets(v) ==
    {PickKeys(v, chosen, 1) : chosen \in (SUBSET (1..Len(RegionList(v)))) \ {{}}}

Derivation(op, listing, regions) ==
    [NoDerivation EXCEPT !.op = op, !.listing = listing, !.regions = regions]

TextOps ==
    {"get_listing_text_content", "determine_fedramp_status", "determine_impact_level",
     "determine_cmmc_level"}

InitClassify ==
    /\ variant \in {"customer", "all_regions", "data"}
    /\ files = NoFiles(variant)
    /\ detailed = NoFiles(variant)
    /\ all_listings = <<>>
    /\ unique_listings = <<>>
    /\ total_loaded = 0
    /\ unique_count = 0
    /\ pc = "classify"
    /\ pos = [r |-> 1, i |-> 1]
    /\ runs = 0
    /\ first_run = <<>>
    /\ loaded_listings = <<>>
    /\ sg = NoCall
    /\ ex = NoExport
    /\ \/ /\ variant # "data"
          /\ \E op \in TextOps, listing \in TextListings :
                fn = Derivation(op, listing, <<>>)
       \/ /\ variant # "data"
          /\ \E listing \in ScoreListings, regions \in RegionSets(variant) :
                fn = Derivation("calculate_sales_priority_score", listing, regions)
       \/ /\ variant = "data"
          /\ \E listing \in TextListings :
                fn = Derivation("data.determine_impact_level", listing, <<>>)
       \/ /\ variant = "customer"
          /\ \E listing \in SignalListings, regions \in RegionSets(variant) :
                fn = Derivation("calculate_gov_sales_priority", listing, regions)
       \/ /\ variant = "customer"
          /\ \E regions \in RegionSets(variant) :
                fn = Derivation("determine_gov_authorization_level", EmptyDict, regions)

\* the frame of a call: the processor is left alone
Called(op) ==
    /\ pc = "classify"
    /\ fn.op = op
    /\ ~fn.done
    /\ UNCHANGED <<variant, files, detailed, all_listings, unique_listings, total_loaded,
                   unique_count, pc, pos, runs, first_run, loaded_listings, sg, ex>>

\* self.get_listing_text_content(listing)
GetListingTextContent ==
    /\ Called("get_listing_text_content")
    /\ LET res == get_listing_text_content(variant, fn.listing)
       IN  fn' = [fn EXCEPT !.done = TRUE, !.raised = res.raised, !.text = res.text]

\* self.determine_fedramp_status(listing)
DetermineFedrampStatus ==
    /\ Called("determine_fedramp_status")
    /\ LET res == determine_fedramp_status(variant, fn.listing)
       IN  fn' = [fn EXCEPT !.done = TRUE, !.raised = res.raised, !.label = res.value]

\* self.determine_impact_level(listing)
DetermineImpactLevel ==
    /\ Called("determine_impact_level")
    /\ LET res == determine_impact_level(variant, fn.listing)
       IN  fn' = [fn EXCEPT !.done = TRUE, !.raised = res.raised, !.label = res.value]

\* self.determine_cmmc_level(listing)
DetermineCmmcLevel ==
    /\ Called("determine_cmmc_level")
    /\ LET res == determine_cmmc_level(variant, fn.listing)
       IN  fn' = [fn EXCEPT !.done = TRUE, !.raised = res.raised, !.label = res.value]

\* self.calculate_sales_priority_score(listing, regions)
CalculateSalesPriorityScore ==
    /\ Called("calculate_sales_priority_score")
    /\ fn' = [fn EXCEPT !.done = TRUE,
                        !.score = calculate_sales_priority_score(variant, fn.listing,
                                                                 fn.regions)]

\* self.calculate_gov_sales_priority(listing, regions)
CalculateGovSalesPriority ==
    /\ Called("calculate_gov_sales_priority")
    /\ fn' = [fn EXCEPT !.done = TRUE,
                        !.label = calculate_gov_sales_priority(fn.listing, fn.regions)]

\* self.determine_gov_authorization_level(regions)
DetermineGovAuthorizationLevel ==
    /\ Called("determine_gov_authorization_level")
    /\ fn' = [fn EXCEPT !.done = TRUE,
                        !.label = determine_gov_authorization_level(fn.regions)]

\* OCIMarketplaceProcessor.determine_impact_level(listing) of process_oci_data.py
DataDetermineImpactLevel ==
    /\ Called("data.determine_impact_level")
    /\ LET res == data_determine_impact_level(fn.listing)
       IN  fn' = [fn EXCEPT !.done = TRUE, !.raised = res.raised, !.label = res.value]

NextClassify ==
    \/ DataDetermineImpactLevel
    \/ GetListingTextContent
    \/ DetermineFedrampStatus
    \/ DetermineImpactLevel
    \/ DetermineCmmcLevel
    \/ CalculateSalesPriorityScore
    \/ CalculateGovSalesPriority
    \/ DetermineGovAuthorizationLevel

SpecClassify == InitClassify /\ [][NextClassify]_vars

(***************************************************************************)
(* Properties of the classifiers and scorers.                              *)
(***************************************************************************)
\* the call op has returned
Returns(op) == fn.done /\ fn.op = op

\* the corpus of the listing of the call
Corpus == get_listing_text_content(variant, fn.listing).text

ImpactLevels == {2, 4, 5, 6}

\* an impact level's keyword occurs in the text
LevelOccurs(level, text) ==
    CASE level = 6 -> Contains(S("il6"), text) \/ Contains(S("impact level 6"), text)
      [] level = 5 -> Contains(S("il5"), text) \/ Contains(S("impact level 5"), text)
      [] level = 4 -> Contains(S("il4"), text) \/ Contains(S("impact level 4"), text)
      [] level = 2 -> Contains(S("il2"), text) \/ Contains(S("impact level 2"), text)

\* the label of an impact level in a variant
LevelLabel(v, level) ==
    CASE level = 6 -> "IL6 (Secret)"
      [] level = 5 -> IF v = "customer" THEN "IL5 (CUI High)" ELSE "IL5"
      [] level = 4 -> IF v = "customer" THEN "IL4 (CUI)" ELSE "IL4"
      [] level = 2 -> IF v = "customer" THEN "IL2 (Unclassified)" ELSE "IL2"

\* C12: determine_impact_level returns the IL6 label for every corpus that contains both
\* "il4" and "il6", never the IL4 label, and in general the label of the highest impact
\* level (IL6 > IL5 > IL4 > IL2) whose keyword occurs in the corpus.
C12_HighestImpactLevel ==
    Returns("determine_impact_level") =>
        /\ ~fn.raised
        /\ (Contains(S("il4"), Corpus) /\ Contains(S("il6"), Corpus)) =>
              fn.label = "IL6 (Secret)"
        /\ \A level \in ImpactLevels :
              (/\ LevelOccurs(level, Corpus)
               /\ \A higher \in ImpactLevels : higher > level => ~LevelOccurs(higher, Corpus))
              => fn.label = LevelLabel(variant, level)

\* a corpus with "il4" and "il6" was classified
C12_Witness ==
    /\ Returns("determine_impact_level")
    /\ Contains(S("il4"), Corpus)
    /\ Contains(S("il6"), Corpus)
    /\ fn.label = "IL6 (Secret)"

\* the keywords of determine_fedramp_status in a variant
FedrampKeywords(v) ==
    IF v = "customer"
    THEN <<S("fedramp high"), S("fedramp moderate"), S("fedramp low"),
           S("fedramp authorized"), S("fedramp"), S("fisma"), S("federal compliance")>>
    ELSE <<S("fedramp high"), S("fedramp moderate"), S("fedramp low"), S("fedramp"),
           S("federal"), S("government certified"), S("fisma")>>

\* C13: determine_fedramp_status returns exactly "Not Specified", with no exception and
\* never an empty string, for every listing that matches none of its FedRAMP keywords,
\* a listing whose text fields are all missing included.
C13_FedrampDefault ==
    Returns("determine_fedramp_status") =>
        /\ ~fn.raised
        /\ fn.label # ""
        /\ ~ContainsAny(FedrampKeywords(variant), Corpus) => fn.label = "Not Specified"
        /\ fn.listing = EmptyDict => fn.label = "Not Specified"

\* the listing with every text field missing was classified
C13_Witness ==
    /\ Returns("determine_fedramp_status")
    /\ fn.listing = EmptyDict
    /\ fn.label = "Not Specified"

\* C14: calculate_sales_priority_score returns an integer between 1 and 10, and exactly
\* 10 whenever the base score plus the deltas exceeds 10.
C14_ScoreClamped ==
    Returns("calculate_sales_priority_score") =>
        /\ fn.score \in 1..10
        /\ SalesScoreSum(variant, fn.listing, fn.regions) > 10 => fn.score = 10

\* a call whose base score plus deltas exceeds 10 has returned
C14_Witness ==
    /\ Returns("calculate_sales_priority_score")
    /\ SalesScoreSum(variant, fn.listing, fn.regions) > 10
    /\ fn.score = 10

\* the realm groups of a region set
DodCurrent(regions) ==
    \E n \in 1..Len(regions) : regions[n] \in {"oc2_us_dod_east", "oc2_us_dod_west"}
DodLegacy(regions) ==
    \E n \in 1..Len(regions) :
        regions[n] \in {"legacy_us_dod_east", "legacy_us_dod_central", "legacy_us_dod_west"}
GovRealm(regions) ==
    \E n \in 1..Len(regions) : regions[n] \in {"oc3_us_gov_east", "oc3_us_gov_west"}

\* the text signals of the listing of the call
SecurityFocus == ContainsAny(security_terms, Corpus)
FedrampPresent == determine_fedramp_status(variant, fn.listing).value # "Not Specified"
CmmcPresent == determine_cmmc_level(variant, fn.listing).value # "Not Specified"

\* the weight of a signal that is present
Points(present, weight) == IF present THEN weight ELSE 0

\* the priority of a score
PriorityOf(score) ==
    IF score >= 8 THEN "CRITICAL"
    ELSE IF score >= 5 THEN "HIGH"
    ELSE IF score >= 3 THEN "MEDIUM"
    ELSE "LOW"

\* C15: calculate_gov_sales_priority is an additive score to which each of the six
\* signals (DoD-current realm, DoD-legacy realm, Gov realm, security focus, FedRAMP
\* present, CMMC present) contributes independently of the others; CRITICAL from 8,
\* HIGH from 5, MEDIUM from 3, LOW below.
C15_IndependentSignals ==
    Returns("calculate_gov_sales_priority") =>
        fn.label = PriorityOf(Points(DodCurrent(fn.regions), 6)
                              + Points(DodLegacy(fn.regions), 4)
                              + Points(GovRealm(fn.regions), 3)
                              + Points(SecurityFocus, 2)
                              + Points(FedrampPresent, 1)
                              + Points(CmmcPresent, 1))

\* C15, amended: the DoD-legacy realm contributes only where no DoD-current realm is
\* present; the other four signals contribute independently; CRITICAL from 8, HIGH
\* from 5, MEDIUM from 3, LOW below.
C15_LegacyOnlyWithoutCurrent ==
    Returns("calculate_gov_sales_priority") =>
        fn.label = PriorityOf(Points(DodCurrent(fn.regions), 6)
                              + Points(~DodCurrent(fn.regions) /\ DodLegacy(fn.regions), 4)
                              + Points(GovRealm(fn.regions), 3)
                              + Points(SecurityFocus, 2)
                              + Points(FedrampPresent, 1)
                              + Points(CmmcPresent, 1))

\* a listing of both DoD realms and no other signal was given the priority of 6 points
C15_Witness ==
    /\ Returns("calculate_gov_sales_priority")
    /\ DodCurrent(fn.regions)
    /\ DodLegacy(fn.regions)
    /\ ~GovRealm(fn.regions)
    /\ ~SecurityFocus /\ ~FedrampPresent /\ ~CmmcPresent
    /\ fn.label = "HIGH"

\* C16: determine_gov_authorization_level reports the realm group of highest precedence
\* that is present, DoD-current over DoD-legacy over Gov, and "Commercial Only" exactly
\* when none of the three is present.
C16_HighestRealm ==
    Returns("determine_gov_authorization_level") =>
        /\ DodCurrent(fn.regions) => fn.label = "DoD Impact Level Ready"
        /\ (~DodCurrent(fn.regions) /\ DodLegacy(fn.regions)) =>
              fn.label = "DoD Legacy Authorized"
        /\ (~DodCurrent(fn.regions) /\ ~DodLegacy(fn.regions) /\ GovRealm(fn.regions)) =>
              fn.label = "FedRAMP Authority"
        /\ fn.label = "Commercial Only" <=>
              ~(DodCurrent(fn.regions) \/ DodLegacy(fn.regions) \/ GovRealm(fn.regions))

\* a region set with all three realm groups was given the DoD-current level
C16_Witness ==
    /\ Returns("determine_gov_authorization_level")
    /\ DodCurrent(fn.regions)
    /\ DodLegacy(fn.regions)
    /\ GovRealm(fn.regions)
    /\ fn.label = "DoD Impact Level Ready"

\* the text a field contributes to the corpus: nothing when the field is missing
FieldText(listing, key) ==
    IF Has(listing, key) /\ Get(listing, key) # PyNone
    THEN StrChars(Get(listing, key))
    ELSE <<>>

\* C20: get_listing_text_content returns the lower-cased concatenation of name, short
\* description, long description, tags and keywords, every missing field contributing
\* the empty string.
C20_CorpusOfFiveFields ==
    Returns("get_listing_text_content") =>
        /\ ~fn.raised
        /\ fn.text = Lower(JoinSpace(<<FieldText(fn.listing, "name"),
                                       FieldText(fn.listing, "short-description"),
                                       FieldText(fn.listing, "long-description"),
                                       FieldText(fn.listing, "tags"),
                                       FieldText(fn.listing, "keywords")>>))
(***************************************************************************)
(* The export: process_to_sales_excel (customer) and process_to_sales_csv  *)
(* (all_regions) derive one row per canonical listing inside a try; the    *)
(* except clause reports the listing and goes on with the next one.  A row *)
(* carries the columns below; the customer variant names them              *)
(* Commercial_OC1, US_Gov_OC3, DoD_OC2 and Sales_Priority_Score and has no *)
(* UK_Gov_Available, the all_regions variant has no Total_Regions,         *)
(* Gov_Authorization_Level and Gov_Sales_Priority.                         *)
(***************************************************************************)
\* text.replace(old, ''), from position n of the text on
RECURSIVE RemoveAll(_, _, _)
RemoveAll(text, old, n) ==
    IF n > Len(text) THEN <<>>
    ELSE IF StartsWith(SubSeq(text, n, Len(text)), old)
         THEN RemoveAll(text, old, n + Len(old))
         ELSE <<text[n]>> \o RemoveAll(text, old, n + 1)

\* the availability flags of a region set
commercial_available(v, regions) == InRegion(regions, "commercial")

us_gov_available(v, regions) ==
    IF v = "customer"
    THEN InRegion(regions, "oc3_us_gov_east") \/ InRegion(regions, "oc3_us_gov_west")
    ELSE InRegion(regions, "us_gov_east") \/ InRegion(regions, "us_gov_west")

\* the DoD flag without the legacy realm
dod_available_CurrentOnly(v, regions) ==
    IF v = "customer"
    THEN InRegion(regions, "oc2_us_dod_east") \/ InRegion(regions, "oc2_us_dod_west")
    ELSE AnyStartsWith(regions, "us_dod")

dod_available(v, regions) ==
    IF v = "customer"
    THEN \/ InRegion(regions, "oc2_us_dod_east")
         \/ InRegion(regions, "oc2_us_dod_west")
         \/ AnyStartsWith(regions, "legacy_us_dod")
    ELSE AnyStartsWith(regions, "us_dod")

\* the body of the try for one canonical listing: the rows it appends, or the exception
\* the derivation raises (get_estimated_price on a pricing value that has no get,
\* replace on an id that is no string)
DeriveRow(v, listing_id, listing, regions) ==
    LET price == get_estimated_price(listing)
    IN  IF price.raised \/ listing_id.tag # "str"
        THEN [raised |-> TRUE, rows |-> <<>>]
        ELSE [raised |-> FALSE,
              rows |-> << [Product_Name |-> safe_get(listing, Key("name"), Str("")).value,
                          Publisher |-> get_publisher_name(v, listing),
                          Category |-> get_category(v, listing),
                          Commercial_Available |-> commercial_available(v, regions),
                          US_Gov_Available |-> us_gov_available(v, regions),
                          US_DoD_Available |-> dod_available(v, regions),
                          UK_Gov_Available |-> v = "all_regions" /\ InRegion(regions, "uk_gov"),
                          Total_Regions |-> IF v = "customer" THEN Len(regions) ELSE 0,
                          Gov_Authorization_Level |->
                              IF v = "customer" THEN determine_gov_authorization_level(regions)
                              ELSE "",
                          FedRAMP_Status |-> determine_fedramp_status(v, listing).value,
                          DoD_Impact_Level |-> determine_impact_level(v, listing).value,
                          CMMC_Level |-> determine_cmmc_level(v, listing).value,
                          Estimated_Price |-> price.value,
                          Sales_Priority |-> calculate_sales_priority_score(v, listing, regions),
                          Gov_Sales_Priority |->
                              IF v = "customer" THEN calculate_gov_sales_priority(listing, regions)
                              ELSE "",
                          Listing_ID |-> RemoveAll(StrChars(listing_id),
                                                   S("ocid1.marketplace.listing."), 1)] >>]

\* priority_order of export_to_excel
priority_order(label) ==
    CASE label = "CRITICAL" -> 4
      [] label = "HIGH" -> 3
      [] label = "MEDIUM" -> 2
      [] label = "LOW" -> 1
      [] OTHER -> 0

\* row a comes before row b in the sorted sheet, or they tie
SortsBefore(v, a, b) ==
    IF v = "customer"
    THEN \/ priority_order(a.Gov_Sales_Priority) > priority_order(b.Gov_Sales_Priority)
         \/ /\ priority_order(a.Gov_Sales_Priority) = priority_order(b.Gov_Sales_Priority)
            /\ a.Sales_Priority > b.Sales_Priority
    ELSE a.Sales_Priority > b.Sales_Priority

\* the orders sort_values can leave the rows in: the customer variant sorts on two
\* columns and keeps rows that tie in their order, the all_regions variant sorts on one
\* column with a sort that may exchange rows that tie
SortedOrders(v, rows) ==
    {p \in [1..Len(rows) -> 1..Len(rows)] :
        /\ \A m, n \in 1..Len(rows) : p[m] = p[n] => m = n
        /\ \A m, n \in 1..Len(rows) :
              m < n => /\ ~SortsBefore(v, rows[p[n]], rows[p[m]])
                       /\ (v = "customer" /\ ~SortsBefore(v, rows[p[m]], rows[p[n]]))
                             => p[m] < p[n]}

\* records for the export: an id with or without the marketplace prefix, a pricing of
\* every shape
ExportRecords ==
    {Dict(Field("id", id) \cup pricing) :
        id \in {Str("X"), Str("ocid1.marketplace.listing.Y")},
        pricing \in {Absent,
                     Field("pricing", Str("FREE")),
                     Field("pricing", Dict(Field("type", Str("FREE")))),
                     Field("pricing", Dict(Field("rate", Str("0.5"))))}}

\* the files of one listing found in two realms: L1 is in commercial as "Acme" without a
\* description and in oc2_us_dod_east as "Acme Security Suite" with one
AcmeCommercial == Dict(Field("id", Str("L1")) \cup Field("name", Str("Acme")))
AcmeDod ==
    Dict(Field("id", Str("L1")) \cup Field("name", Str("Acme Security Suite"))
         \cup Field("short-description", Str("provides firewall protection")))
AcmeFiles ==
    [i \in 1..Len(region_files) |->
        IF region_files[i].key = "commercial" THEN <<AcmeCommercial>>
        ELSE IF region_files[i].key = "oc2_us_dod_east" THEN <<AcmeDod>>
        ELSE <<>>]

\* the state after OCIMarketplaceSalesProcessor() in main, the region files holding
\* records for the export
InitMain ==
    /\ variant \in {"customer", "all_regions"}
    /\ \/ \E n \in 0..MaxRecords :
             \E pv \in PositionVectors(n), rs \in [1..n -> ExportRecords] :
                files = FilesOf(variant, pv, rs)
       \/ variant = "customer" /\ files = AcmeFiles
    /\ detailed = NoFiles(variant)
    /\ all_listings = <<>>
    /\ unique_listings = <<>>
    /\ total_loaded = 0
    /\ unique_count = 0
    /\ pc = "start"
    /\ pos = [r |-> 1, i |-> 1]
    /\ runs = 0
    /\ first_run = <<>>
    /\ loaded_listings = <<>>
    /\ sg = NoCall
    /\ fn = NoDerivation
    /\ ex = NoExport

\* processor.export_to_excel(...) / export_to_sales_csv(...) of main enters the loop of
\* process_to_sales_excel / process_to_sales_csv
ExportBegin ==
    /\ pc = "consolidated"
    /\ runs = 1
    /\ pc' = "exporting"
    /\ ex' = [n |-> 1, catalog_data |-> <<>>, failed |-> <<>>, file |-> <<>>]
    /\ UNCHANGED <<variant, files, detailed, all_listings, unique_listings, total_loaded,
                   unique_count, pos, runs, first_run, loaded_listings, sg, fn>>

\* one pass of the loop with a derivation that stores its default in the listing
ProcessListing_StoresDefault ==
    /\ pc = "exporting"
    /\ ex.n <= Len(unique_listings)
    /\ LET entry == unique_listings[ex.n]
           listing == Listing(all_listings, entry)
           res == DeriveRow(variant, entry.id, listing, entry.regions)
       IN  /\ ex' = IF res.raised
                    THEN [ex EXCEPT !.n = ex.n + 1,
                                    !.failed = Append(ex.failed, entry.id)]
                    ELSE [ex EXCEPT !.n = ex.n + 1,
                                    !.catalog_data = ex.catalog_data \o res.rows]
           /\ all_listings' =
                 [all_listings EXCEPT ![entry.listing.r].listings[entry.listing.i] =
                     IF Has(listing, "pricing") THEN listing
                     ELSE Dict(listing.items \cup {<<"pricing", EmptyDict>>})]
    /\ UNCHANGED <<variant, files, detailed, unique_listings, total_loaded,
                   unique_count, pc, pos, runs, first_run, loaded_listings, sg, fn>>

\* one pass of the loop with the exception ending the loop
ProcessListing_StopsAtError ==
    /\ pc = "exporting"
    /\ ex.n <= Len(unique_listings)
    /\ LET entry == unique_listings[ex.n]
           res == DeriveRow(variant, entry.id, Listing(all_listings, entry), entry.regions)
       IN  ex' = IF res.raised
                 THEN [ex EXCEPT !.n = Len(unique_listings) + 1,
                                 !.failed = Append(ex.failed, entry.id)]
                 ELSE [ex EXCEPT !.n = ex.n + 1,
                                 !.catalog_data = ex.catalog_data \o res.rows]
    /\ UNCHANGED <<variant, files, detailed, all_listings, unique_listings, total_loaded,
                   unique_count, pc, pos, runs, first_run, loaded_listings, sg, fn>>

\* one pass of the loop: the row is appended, or the exception is reported and the loop
\* goes on
ProcessListing ==
    /\ pc = "exporting"
    /\ ex.n <= Len(unique_listings)
    /\ LET entry == unique_listings[ex.n]
           res == DeriveRow(variant, entry.id, Listing(all_listings, entry), entry.regions)
       IN  ex' = IF res.raised
                 THEN [ex EXCEPT !.n = ex.n + 1,
                                 !.failed = Append(ex.failed, entry.id)]
                 ELSE [ex EXCEPT !.n = ex.n + 1,
                                 !.catalog_data = ex.catalog_data \o res.rows]
    /\ UNCHANGED <<variant, files, detailed, all_listings, unique_listings, total_loaded,
                   unique_count, pc, pos, runs, first_run, loaded_listings, sg, fn>>

\* the keys of the row dict of process_to_sales_excel (customer) and of
\* process_to_sales_csv (all_regions): the columns of the catalog DataFrame
catalog_columns(v) ==
    IF v = "customer"
    THEN {"Product_Name", "Publisher", "Category", "Short_Description", "Package_Type",
          "Commercial_OC1", "US_Gov_OC3", "DoD_OC2", "Total_Regions", "Available_Regions",
          "Gov_Authorization_Level", "Gov_Clearance_Details", "FedRAMP_Status",
          "DoD_Impact_Level", "CMMC_Level", "Security_Certifications", "Pricing_Model",
          "Estimated_Price", "Free_Trial_Available", "Oracle_Validated",
          "Sales_Priority_Score", "Gov_Sales_Priority", "Target_Customer_Size",
          "Industry_Focus", "Primary_Use_Case", "Deployment_Method",
          "Integration_Complexity", "Supported_OS", "Support_Type", "Demo_Available",
          "POC_Duration_Est", "Implementation_Timeline", "Reference_Customers",
          "Key_Competitors", "Unique_Value_Prop", "Key_Features", "Marketplace_URL",
          "Documentation_URL", "Support_URL", "Video_Demo_URL", "Gov_Sales_Notes",
          "Sales_Strategy_Notes", "Listing_ID", "Last_Updated", "Oracle_Partner_Level",
          "Data_Extraction_Date"}
    ELSE {"Product_Name", "Publisher", "Category", "Brief_Description",
          "Commercial_Available", "US_Gov_Available", "US_DoD_Available",
          "UK_Gov_Available", "FedRAMP_Status", "DoD_Impact_Level", "CMMC_Level",
          "Security_Certifications", "Pricing_Model", "Estimated_Price", "Free_Trial",
          "FREE", "BYOL", "PAID", "SUBSCRIPTION", "Sales_Priority", "Target_Customer_Size",
          "Industry_Focus", "Use_Case", "Deployment_Method", "Integration_Complexity",
          "Supported_Platforms", "Support_Type", "Demo_Available", "POC_Duration",
          "Implementation_Timeline", "Reference_Customers", "Competitor_Products",
          "Unique_Value_Prop", "Key_Features", "Marketplace_URL", "Documentation_Available",
          "Documentation_URL", "Video_Demo_URL", "Gov_Sales_Notes", "Listing_ID",
          "Last_Updated", "Oracle_Partner_Level", "Oracle_Validated"}

\* the catalog columns read before the file is written: the sort and, in the customer
\* variant, the three analysis sheets
sheet_columns(v) ==
    IF v = "customer"
    THEN {"Gov_Sales_Priority", "Sales_Priority_Score", "US_Gov_OC3", "DoD_OC2",
          "Product_Name", "Publisher", "Category", "Gov_Authorization_Level",
          "FedRAMP_Status", "DoD_Impact_Level", "CMMC_Level", "Security_Certifications",
          "Pricing_Model", "Target_Customer_Size", "Gov_Sales_Notes",
          "Sales_Strategy_Notes", "Marketplace_URL", "Commercial_OC1"}
    ELSE {"Sales_Priority"}

\* the catalog columns read after the file is written: print_export_summary (customer),
\* the prints of export_to_sales_csv and create_sales_summary_report (all_regions)
summary_columns(v) ==
    IF v = "customer"
    THEN {"Commercial_OC1", "US_Gov_OC3", "DoD_OC2", "UK_Gov", "Gov_Sales_Priority"}
    ELSE {"US_Gov_Available", "US_DoD_Available", "UK_Gov_Available", "Sales_Priority",
          "Category", "Pricing_Model", "FedRAMP_Status", "Publisher"}

\* the phase the export ends in: reading a column the catalog does not have raises
\* KeyError, which the except clause of the export reports
ExportOutcome(v) ==
    IF sheet_columns(v) \subseteq catalog_columns(v)
       /\ summary_columns(v) \subseteq catalog_columns(v)
    THEN "exported"
    ELSE "export_error"

\* the end of the loop with rows: the rows are sorted and written and the summary is
\* printed
ExportWrite ==
    /\ pc = "exporting"
    /\ ex.n > Len(unique_listings)
    /\ ex.catalog_data # <<>>
    /\ IF sheet_columns(variant) \subseteq catalog_columns(variant)
       THEN \E p \in SortedOrders(variant, ex.catalog_data) :
               ex' = [ex EXCEPT !.file = [n \in 1..Len(ex.catalog_data) |->
                                            ex.catalog_data[p[n]]]]
       ELSE ex' = ex
    /\ pc' = ExportOutcome(variant)
    /\ UNCHANGED <<variant, files, detailed, all_listings, unique_listings, total_loaded,
                   unique_count, pos, runs, first_run, loaded_listings, sg, fn>>

\* the end of the loop without a row: "No data to export"
ExportNoData ==
    /\ pc = "exporting"
    /\ ex.n > Len(unique_listings)
    /\ ex.catalog_data = <<>>
    /\ pc' = "no_data"
    /\ UNCHANGED <<variant, files, detailed, all_listings, unique_listings, total_loaded,
                   unique_count, pos, runs, first_run, loaded_listings, sg, fn, ex>>

NextMain ==
    \/ LoadAllRegionalData
    \/ MainEmptyBatch
    \/ ConsolidateBegin
    \/ ConsolidateStep
    \/ ConsolidateReturn
    \/ ExportBegin
    \/ ProcessListing
    \/ ExportWrite
    \/ ExportNoData

SpecMain == InitMain /\ [][NextMain]_vars

(***************************************************************************)
(* Properties of main and of the export.                                   *)
(***************************************************************************)
ExportPhases == {"exporting", "exported", "export_error", "no_data"}

\* the export has written its file
Exported == pc \in {"exported", "export_error"} /\ ex.file # <<>>

\* the derivation of the n-th canonical listing raises
Raises(n) ==
    DeriveRow(variant, unique_listings[n].id, Listing(all_listings, unique_listings[n]),
              unique_listings[n].regions).raised

\* the Listing_ID of the row of the n-th canonical listing
RowId(n) == RemoveAll(StrChars(unique_listings[n].id), S("ocid1.marketplace.listing."), 1)

\* the rows built so far that belong to the n-th canonical listing
RowsOf(n) == {k \in 1..Len(ex.catalog_data) : ex.catalog_data[k].Listing_ID = RowId(n)}

\* C17: an exception raised while deriving a field of one canonical listing drops only
\* that listing: the output has exactly one row for every canonical listing whose
\* derivation did not raise and none for one that raised, and the loop goes on through
\* the last listing.
C17_OnlyRaisingListingDropped ==
    pc \in ExportPhases =>
        /\ \A n \in 1..(ex.n - 1) :
              IF Raises(n)
              THEN RowsOf(n) = {} /\ unique_listings[n].id \in AsSet(ex.failed)
              ELSE Cardinality(RowsOf(n)) = 1 /\ unique_listings[n].id \notin AsSet(ex.failed)
        /\ Len(ex.catalog_data) = Cardinality({n \in 1..(ex.n - 1) : ~Raises(n)})
        /\ pc \in {"exported", "export_error", "no_data"} => ex.n = Len(unique_listings) + 1

\* an export in which a listing was dropped and a later listing got its row
C17_Witness ==
    /\ Exported
    /\ \E m, n \in 1..Len(unique_listings) :
          m < n /\ Raises(m) /\ RowsOf(m) = {} /\ ~Raises(n) /\ RowsOf(n) # {}

\* C18: when load_all_regional_data loads no listing at all, main reports the empty
\* batch and returns: consolidation and export never run and no exception reaches
\* main's handler; consolidation and export run only after a load that returned a
\* positive total, and the export only after the consolidation has returned.
C18_EmptyBatchReturns ==
    /\ [](pc = "empty_batch" =>
            total_loaded = 0 /\ runs = 0 /\ unique_listings = <<>> /\ ex = NoExport)
    /\ []((pc # "start" /\ total_loaded = 0) => pc \in {"loaded", "empty_batch"})
    /\ [](runs > 0 => total_loaded > 0)
    /\ [](pc \in ExportPhases =>
            total_loaded > 0 /\ runs > 0 /\ pos.r > Len(all_listings)
            /\ unique_count = Len(unique_listings))
    /\ [][pc # "empty_batch"]_vars

\* main has returned on an empty batch
C18_Witness == pc = "empty_batch" /\ total_loaded = 0 /\ all_listings # <<>>

\* C19: after consolidation the export and every classifier and scorer it calls leave
\* unique_listings unchanged: no canonical listing's fields, region set, region_names or
\* primary_region is modified, added or removed while the rows are derived.
C19_ExportReadsOnly ==
    [][(pc \in {"consolidated", "exporting"} /\ pc' \in ExportPhases) =>
          (unique_listings' = unique_listings /\ all_listings' = all_listings)]_vars

\* rows were derived and the canonical listings are as the consolidation left them
C19_Witness ==
    /\ Exported
    /\ ex.catalog_data # <<>>
    /\ Canonical(all_listings, unique_listings) = first_run

(***************************************************************************)
(* Further properties of the classifiers and scorers.                      *)
(***************************************************************************)
TextKeys == {"name", "short-description", "long-description", "tags", "keywords"}

\* the listing with the same fields otherwise and no text, hence no compliance status
WithoutText(listing) == Dict({p \in listing.items : p[1] \notin TextKeys})

\* C21: calculate_sales_priority_score starts at 5 and adds a fixed positive delta for a
\* recognized compliance status (a FedRAMP status other than "Not Specified"): with the
\* same fields otherwise and the same region set, the score before the clamp of a listing
\* with a recognized compliance status is higher than that of the listing without.
C21_ComplianceDelta ==
    (Returns("calculate_sales_priority_score") /\ FedrampPresent) =>
        /\ determine_fedramp_status(variant, WithoutText(fn.listing)).value = "Not Specified"
        /\ SalesScoreSum(variant, fn.listing, fn.regions)
              > SalesScoreSum(variant, WithoutText(fn.listing), fn.regions)

\* the keywords of the named FedRAMP levels and of the named CMMC levels
FedrampHigh == Contains(S("fedramp high"), Corpus)
FedrampModerate == Contains(S("fedramp moderate"), Corpus)
FedrampLow == Contains(S("fedramp low"), Corpus) \/ Contains(S("fedramp authorized"), Corpus)
CmmcThree == Contains(S("cmmc level 3"), Corpus) \/ Contains(S("cmmc l3"), Corpus)
CmmcTwo == Contains(S("cmmc level 2"), Corpus) \/ Contains(S("cmmc l2"), Corpus)

\* C22: determine_fedramp_status and determine_cmmc_level give precedence to the more
\* specific keyword: a corpus with the keywords of several levels yields the highest
\* ("fedramp high" with "fedramp moderate" yields FedRAMP High, "cmmc level 3" with
\* "cmmc level 2" yields CMMC Level 3), and the generic keyword alone ("fedramp",
\* "cmmc") yields the lowest label of the dimension, FedRAMP Ready and CMMC Level 1+.
C22_SpecificFirst ==
    /\ Returns("determine_fedramp_status") =>
          /\ FedrampHigh => fn.label = "FedRAMP High"
          /\ (~FedrampHigh /\ FedrampModerate) => fn.label = "FedRAMP Moderate"
          /\ (Contains(S("fedramp"), Corpus)
              /\ ~FedrampHigh /\ ~FedrampModerate /\ ~FedrampLow) =>
                fn.label = "FedRAMP Ready"
    /\ Returns("determine_cmmc_level") =>
          /\ CmmcThree => fn.label = "CMMC Level 3"
          /\ (~CmmcThree /\ CmmcTwo) => fn.label = "CMMC Level 2"
          /\ (Contains(S("cmmc"), Corpus) /\ ~CmmcThree /\ ~CmmcTwo) =>
                fn.label = "CMMC Level 1+"

\* a corpus with "fedramp high" and "fedramp moderate" was classified
C22_Witness ==
    /\ Returns("determine_fedramp_status")
    /\ FedrampHigh
    /\ FedrampModerate
    /\ fn.label = "FedRAMP High"

\* the region set has every key of the other
RegionSubset(small, large) ==
    \A n \in 1..Len(small) : InRegion(large, small[n])

\* the rank of a priority level, LOW lowest
PriorityRank(label) ==
    CASE label = "CRITICAL" -> 3
      [] label = "HIGH" -> 2
      [] label = "MEDIUM" -> 1
      [] label = "LOW" -> 0

\* C26: both priority scores are monotone in region membership: for the same listing and
\* region sets R and R' with R a subset of R', calculate_sales_priority_score with R' is at
\* least the score with R, and calculate_gov_sales_priority with R' is never a lower level
\* than with R.
C26_MonotoneInRegions ==
    /\ Returns("calculate_sales_priority_score") =>
          \A larger \in RegionSets(variant) :
              RegionSubset(fn.regions, larger) =>
                  calculate_sales_priority_score(variant, fn.listing, larger) >= fn.score
    /\ Returns("calculate_gov_sales_priority") =>
          \A larger \in RegionSets(variant) :
              RegionSubset(fn.regions, larger) =>
                  PriorityRank(calculate_gov_sales_priority(fn.listing, larger))
                      >= PriorityRank(fn.label)

\* a listing of a DoD-current realm was scored, and it has a larger region set with a
\* legacy DoD realm
C26_Witness ==
    /\ Returns("calculate_sales_priority_score")
    /\ variant = "customer"
    /\ fn.regions = <<"oc2_us_dod_east">>
    /\ fn.score = 8
    /\ \E larger \in RegionSets(variant) :
          /\ RegionSubset(fn.regions, larger)
          /\ DodLegacy(larger)
          /\ calculate_sales_priority_score(variant, fn.listing, larger) = 8

\* C27: the availability flags and the authorization level of an output row agree:
\* Gov_Authorization_Level is "Commercial Only" exactly when US_Gov_OC3 and DoD_OC2 are
\* both "No", and it is one of the two DoD levels exactly when DoD_OC2 is "Yes".
C27_FlagsAgreeWithLevel ==
    Returns("determine_gov_authorization_level") =>
        /\ fn.label = "Commercial Only" <=>
              (~us_gov_available(variant, fn.regions) /\ ~dod_available(variant, fn.regions))
        /\ fn.label \in {"DoD Impact Level Ready", "DoD Legacy Authorized"} <=>
              dod_available(variant, fn.regions)

\* a region set whose only government realm is a legacy DoD realm was given its level
C27_Witness ==
    /\ Returns("determine_gov_authorization_level")
    /\ fn.regions = <<"commercial", "legacy_us_dod_west">>
    /\ dod_available(variant, fn.regions)
    /\ fn.label = "DoD Legacy Authorized"

\* C28: calculate_gov_sales_priority never rates a listing of a DoD-current realm below
\* HIGH, and never rates a listing of no DoD realm, current or legacy, CRITICAL.
C28_DodBounds ==
    Returns("calculate_gov_sales_priority") =>
        /\ DodCurrent(fn.regions) => fn.label \in {"HIGH", "CRITICAL"}
        /\ (~DodCurrent(fn.regions) /\ ~DodLegacy(fn.regions)) => fn.label # "CRITICAL"

\* a listing of the Gov realm with every text signal and no DoD realm was rated HIGH
C28_Witness ==
    /\ Returns("calculate_gov_sales_priority")
    /\ ~DodCurrent(fn.regions) /\ ~DodLegacy(fn.regions)
    /\ GovRealm(fn.regions)
    /\ SecurityFocus /\ FedrampPresent /\ CmmcPresent
    /\ fn.label = "HIGH"

\* C25: in the customer variant, after every step of consolidate_unique_listings the
\* region_names of each canonical listing has no duplicates and holds exactly the display
\* names of the region keys of its region set, as many names as keys, also when an
\* identifier occurs twice within one region.
C25_RegionNamesExact ==
    variant = "customer" =>
        \A n \in 1..Len(unique_listings) :
            /\ NoDuplicates(unique_listings[n].region_names)
            /\ AsSet(unique_listings[n].region_names) =
                  {RegionName(key) : key \in AsSet(unique_listings[n].regions)}
            /\ Len(unique_listings[n].region_names) = Len(unique_listings[n].regions)

\* an identifier that occurs twice within one region was consolidated into one entry
\* with the one display name of that region
C25_Witness ==
    /\ variant = "customer"
    /\ Consolidated
    /\ \E n \in 1..Len(unique_listings) :
          /\ \E a, b \in Sightings(unique_listings[n].id) : a[1] = b[1] /\ a[2] < b[2]
          /\ unique_listings[n].regions = <<"oc3_us_gov_east">>
          /\ unique_listings[n].region_names = <<"US Gov East (OC3)">>

\* the impact levels process_oci_data.py has keywords for, and their labels
DataImpactLevels == {2, 4, 5}
DataLevelLabel(level) ==
    CASE level = 5 -> "IL5"
      [] level = 4 -> "IL4"
      [] level = 2 -> "IL2"

\* C24: determine_impact_level of process_oci_data.py is a first-match-wins ordinal
\* dimension: for any text it returns a single impact level, the highest one whose keyword
\* occurs in the text, never a combination of several levels.
C24_SingleHighestLevel ==
    Returns("data.determine_impact_level") =>
        /\ ~fn.raised
        /\ \A level \in DataImpactLevels :
              (/\ LevelOccurs(level, data_text_content(fn.listing))
               /\ \A higher \in DataImpactLevels :
                     higher > level => ~LevelOccurs(higher, data_text_content(fn.listing)))
              => fn.label = DataLevelLabel(level)

\* C29: in process_oci_customer.py every catalog column read by print_export_summary is
\* a column produced by process_to_sales_excel, so export_to_excel on a non-empty catalog
\* whose workbook was written completes without entering its exception handler.
C29_SummaryColumnsProduced ==
    (variant = "customer" /\ ex.file # <<>>) =>
        /\ summary_columns(variant) \subseteq catalog_columns(variant)
        /\ pc = "exported"

\* C23: identifier L1 in commercial (name "Acme", no description) and in oc2_us_dod_east
\* (name "Acme Security Suite", description "provides firewall protection"): load,
\* consolidation and derivation yield one canonical listing with the name "Acme", the
\* DoD record's description, the region set {commercial, oc2_us_dod_east}, DoD
\* availability true, security focus true, and a numeric priority score that exceeds the
\* score of the same listing in commercial alone by the DoD delta of 3.
C23_AcmeEndToEnd ==
    (variant = "customer" /\ files = AcmeFiles /\ pc \in ExportPhases /\ ex.n > 1) =>
        /\ Len(unique_listings) = 1
        /\ unique_listings[1].id = Str("L1")
        /\ LET listing == Listing(all_listings, unique_listings[1])
               regions == unique_listings[1].regions
           IN  /\ DictGet(listing, "name", PyNone) = Str("Acme")
               /\ DictGet(listing, "short-description", PyNone)
                     = Str("provides firewall protection")
               /\ AsSet(regions) = {"commercial", "oc2_us_dod_east"}
               /\ NoDuplicates(regions)
               /\ is_security_focused(variant, listing).value
               /\ Len(ex.catalog_data) = 1
               /\ ex.catalog_data[1].Product_Name = Str("Acme")
               /\ ex.catalog_data[1].US_DoD_Available
               /\ ex.catalog_data[1].Sales_Priority
                     = calculate_sales_priority_score(variant, listing, <<"commercial">>) + 3

\* the Acme listing was consolidated and its row derived, with the score 8
C23_Witness ==
    /\ variant = "customer"
    /\ files = AcmeFiles
    /\ pc \in ExportPhases
    /\ Len(ex.catalog_data) = 1
    /\ ex.catalog_data[1].Sales_Priority = 8
    /\ ex.catalog_data[1].US_DoD_Available

(***************************************************************************)
(* load_all_regional_data on region files that come with detailed files.   *)
(***************************************************************************)
\* the listings of the region file that has a detailed file
MergeListings ==
    {MkListing(<<Str("X")>>, d) : d \in {<<>>, <<PyNone>>, <<Str("")>>, <<Str("foo")>>}}
    \cup {MkListing(<<>>, <<PyNone>>), MkListing(<<Str("Y")>>, <<PyNone>>), NotAMapping}

\* the items of a detailed file: with an identifier, without one, with an empty one
DetailedItems ==
    {MkListing(<<Str("X")>>, <<Str("bar")>>),
     Dict({<<"id", Str("X")>>, <<"description", Str("foo")>>, <<"version", Str("bar")>>}),
     MkListing(<<>>, <<Str("bar")>>),
     MkListing(<<Str("")>>, <<Str("bar")>>),
     MkListing(<<Str("Y")>>, <<PyNone>>),
     NotAMapping}

SeqsUpTo(set, n) == UNION {[1..k -> set] : k \in 0..n}

\* the state after OCIMarketplaceSalesProcessor() in main: the first region has listings
\* and a detailed file, the second region has a listing with the same identifier or none
InitMerge ==
    /\ variant \in {"customer", "all_regions"}
    /\ \E main \in SeqsUpTo(MergeListings, MaxRecords),
          other \in {<<>>, <<MkListing(<<Str("X")>>, <<>>)>>},
          items \in SeqsUpTo(DetailedItems, MaxRecords) \ {<<>>} :
          /\ files = [i \in 1..Len(RegionList(variant)) |->
                        IF i = 1 THEN main ELSE IF i = 2 THEN other ELSE <<>>]
          /\ detailed = [i \in 1..Len(RegionList(variant)) |->
                           IF i = 1 THEN items ELSE <<>>]
    /\ all_listings = <<>>
    /\ unique_listings = <<>>
    /\ total_loaded = 0
    /\ unique_count = 0
    /\ pc = "start"
    /\ pos = [r |-> 1, i |-> 1]
    /\ runs = 0
    /\ first_run = <<>>
    /\ loaded_listings = <<>>
    /\ sg = NoCall
    /\ fn = NoDerivation
    /\ ex = NoExport

SpecMerge == InitMerge /\ [][LoadAllRegionalData]_vars

\* the value of item.get('id') is an identifier: neither missing, None nor ''
HasIdentifier(item) == IsDict(item) /\ Truthy(DictGet(item, "id", PyNone))

\* the detailed items of region r that carry the identifier of the listing
ItemsFor(r, listing) ==
    {j \in 1..Len(detailed[r]) :
        /\ HasIdentifier(detailed[r][j])
        /\ DictGet(detailed[r][j], "id", PyNone) = DictGet(listing, "id", PyNone)}

\* C30: merge_detailed_data only fills gaps: in a region's listings it adds and removes
\* no listing, changes no field whose value is not null, writes only fields taken from a
\* detailed item with the same identifier, ignores the detailed items without an
\* identifier, and leaves the listings of every other region as they were loaded.
C30_OnlyFillsGaps ==
    \A r \in 1..Len(all_listings) :
        /\ Len(all_listings[r].listings) = Len(files[r])
        /\ detailed[r] = <<>> => all_listings[r].listings = files[r]
        /\ \A i \in 1..Len(files[r]) :
              LET before == files[r][i]
                  after == all_listings[r].listings[i]
              IN  IF ~IsDict(before) THEN after = before
                  ELSE /\ IsDict(after)
                       /\ \A key \in Keys(before) :
                             /\ Has(after, key)
                             /\ Get(before, key) # PyNone => Get(after, key) = Get(before, key)
                       /\ \A key \in Keys(after) :
                             (~Has(before, key) \/ Get(after, key) # Get(before, key)) =>
                                \E j \in ItemsFor(r, before) :
                                    /\ Has(detailed[r][j], key)
                                    /\ Get(detailed[r][j], key) = Get(after, key)

\* a listing of the first region was filled from the detailed item with its identifier,
\* next to a detailed item without an identifier, its non-null neighbour kept its value,
\* and the listing with the same identifier in the second region is as it was loaded
C30_Witness ==
    /\ pc = "loaded"
    /\ files[1] = <<MkListing(<<Str("X")>>, <<PyNone>>), MkListing(<<Str("X")>>, <<Str("")>>)>>
    /\ detailed[1] = <<MkListing(<<>>, <<Str("bar")>>),
                       Dict({<<"id", Str("X")>>, <<"description", Str("foo")>>,
                             <<"version", Str("bar")>>})>>
    /\ all_listings[1].listings[1] =
          Dict({<<"id", Str("X")>>, <<"description", Str("foo")>>, <<"version", Str("bar")>>})
    /\ all_listings[1].listings[2] =
          Dict({<<"id", Str("X")>>, <<"description", Str("")>>, <<"version", Str("bar")>>})
    /\ files[2] = <<MkListing(<<Str("X")>>, <<>>)>>
    /\ all_listings[2].listings = files[2]

====
